---- MODULE Spec2Model ----
(***************************************************************************)
(* Coordination core of gemini-actus: the per-key announce queue           *)
(* (subagent-announce-queue.ts) and the subagent run registry              *)
(* (subagent-registry.ts).                                                 *)
(*                                                                         *)
(* Everything runs on one JavaScript event loop.  An action of this module *)
(* is one run-to-completion stretch of code: from the call (or the wake-up *)
(* of an awaited promise or timer) to the next await.                      *)
(*                                                                         *)
(* Time.  The code reads Date.now() only in the difference                 *)
(* Date.now() - queue.lastEnqueuedAt and in setTimeout delays, so the      *)
(* clock is kept as differences: each queue state holds `elapsed`          *)
(* (= Date.now() - lastEnqueuedAt, saturated at debounceMs, beyond which   *)
(* the code cannot tell values apart) and each timer holds the delay that  *)
(* remains.  AdvanceTime lets d milliseconds pass.                         *)
(***************************************************************************)
EXTENDS Integers, Sequences, FiniteSets, TLC

\* ------------------------------------------------------------------ bounds

\* Number of enqueueAnnounce calls in one behaviour with one key in use.
MaxEnq == 3

\* Number of enqueueAnnounce calls in one behaviour with both keys in use.
MaxEnqTwoKeys == 2

\* Number of AnnounceQueueState objects that can be alive at once.
MaxObjs == 3

\* Number of registry calls (registerRun, updateRun, deleteRun, load, sweep
\* ticks) started in one behaviour.
MaxCalls == 2

\* Largest value of the registry's clock.
MaxNow == 1

\* Number of process restarts in one behaviour.
MaxRestarts == 1

\* Longest requesterSessionKey argument handed to listRunsForRequester.
MaxKeyLen == 2

\* Number of responses published on the bus in one behaviour.
MaxResponses == 2

\* Number of runSubagentAnnounceFlow calls in one behaviour.
MaxAnnounces == 2

\* Number of enqueueAnnounce calls with an origin in one behaviour.
MaxOrigins == 1

\* ------------------------------------------------------- program constants

\* debounceMs of a created queue state when settings.debounceMs is no number.
DefaultDebounceMs == 1000

\* cap of a created queue state when settings.cap is no positive number.
DefaultCap == 20

\* Delay of the re-schedule timer armed when a drain loop exits non-empty.
RescheduleDelayMs == 100

\* ------------------------------------------------------------------ inputs

Keys == {"main", "other"}

\* An optional value: <<>> is undefined, <<v>> is v.
None == <<>>
Some(v) == <<v>>
IsSome(o) == Len(o) = 1
Val(o) == o[1]

\* The settings objects callers pass.  The first is the one
\* runSubagentAnnounceFlow passes; the second is the spec's cap = 1 scenario;
\* the third exercises the clamps (negative debounce, non-positive cap).
SettingsChoices ==
    { [mode |-> "auto", debounceMs |-> None, cap |-> None, dropPolicy |-> "undefined"],
      [mode |-> "collect", debounceMs |-> Some(200), cap |-> Some(1), dropPolicy |-> "new"],
      [mode |-> "followup", debounceMs |-> Some(-1), cap |-> Some(0), dropPolicy |-> "drop"] }

\* No enqueueAnnounce call made for a key.
NoArgs == [ settings |-> [mode |-> "auto", debounceMs |-> None, cap |-> None,
                          dropPolicy |-> "undefined"],
            sends |-> <<>> ]

\* Identities of the send callbacks callers pass.
SendFns == {"sendA", "sendB"}

\* What a call of send(item) does at once: return a promise that is still
\* pending, or throw before returning one.
SendOutcomes == {"pending", "throws"}

ObjIds == 1..MaxObjs

\* --------------------------------------------------------------- variables

VARIABLES
    ANNOUNCE_QUEUES,  \* the module's Map: key -> object id, 0 when the key is absent
    heap,             \* object id -> AnnounceQueueState (field alive = FALSE: no object)
    loops,            \* the started drain loops that are suspended at an await
    timers,           \* key -> remaining delays of the armed re-schedule timers
    sendLog,          \* key -> the items passed to send, in call order
    lastSend,         \* the most recent call of send: its key, item and debounce state
    enqCount,         \* key -> number of enqueueAnnounce calls made for the key
    lastFailed,       \* key -> the item whose send last threw or rejected (0: none)
    lastReentrant,    \* key -> the item last enqueued while a send of the key was in flight
    burst,            \* key -> length of the current run of enqueues closer than debounceMs
    lastReturn,       \* what the most recent enqueueAnnounce call handed its caller
    enqArgs,          \* key -> the settings of its latest enqueueAnnounce call, the send of each
    lastOrigin        \* the origin passed with the latest item, and the origin and originKey pushed

qvars == <<ANNOUNCE_QUEUES, heap, loops, timers, sendLog, lastSend, enqCount,
           lastFailed, lastReentrant, burst, lastReturn, enqArgs, lastOrigin>>

VARIABLES
    runs,             \* SubagentRegistry.runs: runId -> the record under it (<<>>: none)
    loaded,           \* SubagentRegistry.loaded
    sweeper,          \* whether SubagentRegistry.sweeper holds an armed interval timer
    intervals,        \* number of interval timers the registry has armed and not cleared
    file,             \* registry.json: absent, unparsable, or the object it holds
    calls,            \* the registry's async calls that are suspended at an await
    rnow,             \* Date.now() as the sweeper reads it
    started,          \* number of registry calls started so far
    regCalls,         \* runId -> number of registerRun calls started for it
    regDone,          \* runId -> number of registerRun calls for it that have completed
    regRecord,        \* runId -> the record last passed to registerRun for it
    touched,          \* runIds named by an updateRun or deleteRun call or evicted by a sweep
    rejected,         \* whether the promise of some registry call has rejected
    startFile,        \* registry.json as it was when the registry instance was constructed
    persisted,        \* the run map as it was at the last write of registry.json that succeeded
    reads,            \* number of times this registry instance has read registry.json
    restarts,         \* number of times the process has been restarted
    held              \* a record object a caller holds a reference to

rvars == <<runs, loaded, sweeper, intervals, file, calls, rnow, started, regCalls, regDone,
           regRecord, touched, rejected, startFile, persisted, reads, restarts, held>>

VARIABLES
    subs,             \* MessageBus: message type -> the handlers subscribed, in subscription order
    delivered,        \* handler -> the messages it has been invoked with, in order
    published,        \* the messages passed to publish, in call order
    inv,              \* ask-user invocation -> its execute() call: promise, listener, events
    signal,           \* ask-user invocation -> whether its AbortSignal has fired
    env               \* the .env file of the working directory

avars == <<subs, delivered, published, inv, signal, env>>

VARIABLES
    exec,             \* SubAgentInvocation -> its execute() call
    prompts           \* announce key -> the prompts of the items enqueued by the announce flow

xvars == <<exec, prompts>>

vars == <<qvars, rvars, avars, xvars>>

\* What each component leaves alone.
notQ == <<rvars, avars, xvars>>
notR == <<qvars, avars, xvars>>
notA == <<qvars, rvars, xvars>>
notX == <<avars>>

\* ----------------------------------------------------------------- helpers

Max(a, b) == IF a >= b THEN a ELSE b
Min(a, b) == IF a <= b THEN a ELSE b

Range(s) == { s[i] : i \in DOMAIN s }

Last(s) == s[Len(s)]

RemoveAt(s, i) == [ j \in 1..(Len(s) - 1) |-> IF j < i THEN s[j] ELSE s[j + 1] ]

\* ------------------------------------------------------------ message bus

\* MessageBusType.ASK_USER_REQUEST and MessageBusType.ASK_USER_RESPONSE.
MsgTypes == {"ask-user-request", "ask-user-response"}

\* The ask-user invocations (WebdevRequestSecretsToolInvocation objects) and
\* the other subscribers of the bus: the surface that shows requests to the
\* user, and two bystanders that listen to responses.
Invs == {"i1", "i2"}
Handlers == {"ui", "peer", "audit"}

\* The message type a subscriber other than an invocation listens to.
HandlerType(h) == IF h = "ui" THEN "ask-user-request" ELSE "ask-user-response"

\* randomUUID() of an invocation's execute(): one id per call, no two alike.
CorrelationId(i) == IF i = "i1" THEN "X" ELSE "Y"

\* params.secrets of an invocation: the names of the secrets it asks for.
Secrets == << "DB_USER", "DB_PASS" >>

\* response.answers: question index -> value, a sequence of characters.  The
\* values are a plain one, one with a blank and a double quote, and the empty
\* one.  Index 2 names no secret.
AnswersChoices ==
    { [ k \in {0, 1} |-> IF k = 0 THEN <<"v">> ELSE <<"p", " ", "\"">> ],
      [ k \in {1, 2} |-> IF k = 1 THEN <<>> ELSE <<"v">> ] }

NoAnswers == [ k \in {} |-> <<>> ]

\* AskUserRequest as execute() builds it.
Request(i) ==
    [ type |-> "ask-user-request", correlationId |-> CorrelationId(i),
      answers |-> NoAnswers, cancelled |-> FALSE ]

\* AskUserResponse with answers, and with cancelled set.
Answered(c, a) ==
    [ type |-> "ask-user-response", correlationId |-> c, answers |-> a, cancelled |-> FALSE ]
Declined(c) ==
    [ type |-> "ask-user-response", correlationId |-> c, answers |-> NoAnswers,
      cancelled |-> TRUE ]

\* The AskUserResponse messages a consumer publishes: every kind for the first
\* invocation's request, one for the second's, one that answers no request.
ResponseChoices ==
    { Answered("X", a) : a \in AnswersChoices }
    \cup { Declined("X") }
    \cup { Answered(c, CHOOSE a \in AnswersChoices : 0 \in DOMAIN a) : c \in {"Y", "Z"} }

\* Whether fs.appendFileSync on .env succeeds.
AppendOutcomes == {"ok", "throws"}

\* Whether the promise publish() returned resolves or rejects.
PublishOutcomes == {"resolves", "rejects"}

\* The ToolResult values of execute().
NoResult == [ kind |-> "none", error |-> None, saved |-> <<>> ]
CancelledResult == [ kind |-> "cancelled", error |-> Some("Cancelled"), saved |-> <<>> ]
DeclinedResult == [ kind |-> "declined", error |-> None, saved |-> <<>> ]
SavedResult(names) == [ kind |-> "saved", error |-> None, saved |-> names ]
SaveFailedResult == [ kind |-> "saveFailed", error |-> Some("append"), saved |-> <<>> ]
PublishError == [ kind |-> "publishError", error |-> Some("publish"), saved |-> <<>> ]

\* The state that the synchronous code of the bus and of the ask-user flow
\* works on.
Bus == [ subs |-> subs, delivered |-> delivered, inv |-> inv, env |-> env ]

\* subscribe(type, handler)
BusSubscribe(B, type, h) == [ B EXCEPT !.subs[type] = Append(@, h) ]

\* unsubscribe(type, handler): the handler is taken off the type's list; one
\* that is not on it changes nothing.
BusUnsubscribe(B, type, h) ==
    [ B EXCEPT !.subs[type] = SelectSeq(@, LAMBDA g : g # h) ]

\* ---------------------------------------------------------- ask-user flow

\* One piece of the text of .env: characters that end in no newline, a
\* newline, or a line NAME=value with its newline.
Junk == [ kind |-> "junk", name |-> "", value |-> <<>> ]
Newline == [ kind |-> "nl", name |-> "", value |-> <<>> ]
EnvLine(name, value) == [ kind |-> "line", name |-> name, value |-> value ]

\* The .env files an invocation can find: none, or one whose text does not
\* end in a newline.
EnvChoices == { [ exists |-> FALSE, text |-> <<>> ], [ exists |-> TRUE, text |-> <<Junk>> ] }

\* value.replace(/"/g, '\\"')
RECURSIVE Escaped(_)
Escaped(value) ==
    IF value = <<>> THEN <<>>
    ELSE (IF Head(value) = "\"" THEN <<"\\", "\"">> ELSE <<Head(value)>>)
           \o Escaped(Tail(value))

\* safeValue: a value with a blank or a # in it is written between double
\* quotes, its own double quotes escaped.
SafeValue(value) ==
    IF \E k \in DOMAIN value : value[k] \in {" ", "#"}
      THEN <<"\"">> \o Escaped(value) \o <<"\"">>
      ELSE value

\* The indexes that name a secret, whether or not they carry a value.
ActiveWithEmpty(answers) == { k \in DOMAIN answers : (k + 1) \in DOMAIN Secrets }

\* The indexes of response.answers that name a secret and carry a value:
\* `if (secretDef && value)` with secretDef = secrets[parseInt(index, 10)].
Active(answers) ==
    { k \in DOMAIN answers : (k + 1) \in DOMAIN Secrets /\ answers[k] # <<>> }

\* Object.entries(response.answers).forEach visits integer keys in ascending
\* order: the lines NAME=value of the active indexes from index k on.
RECURSIVE LinesFrom(_, _)
LinesFrom(answers, k) ==
    IF \A j \in DOMAIN answers : j < k THEN <<>>
    ELSE (IF k \in Active(answers)
            THEN << EnvLine(Secrets[k + 1], SafeValue(answers[k])) >>
            ELSE <<>>) \o LinesFrom(answers, k + 1)

\* activeSecrets: the names pushed, in the same order.
RECURSIVE NamesFrom(_, _)
NamesFrom(answers, k) ==
    IF \A j \in DOMAIN answers : j < k THEN <<>>
    ELSE (IF k \in Active(answers) THEN << Secrets[k + 1] >> ELSE <<>>)
           \o NamesFrom(answers, k + 1)

\* envContent: a newline first when .env exists, is not empty and does not
\* end in one, then the lines.
EnvContent(E, answers) ==
    (IF E.exists /\ E.text # <<>> /\ E.text[Len(E.text)].kind = "junk"
       THEN <<Newline>> ELSE <<>>) \o LinesFrom(answers, 0)

\* fs.appendFileSync(envPath, envContent)
Appended(E, content) == [ exists |-> TRUE, text |-> E.text \o content ]

\* An execute() call that has not been made.
NoInvocation ==
    [ pc |-> "created", promise |-> "pending", result |-> NoResult,
      listening |-> FALSE, publishing |-> "none", events |-> <<>> ]

Did(B, i, event) == [ B EXCEPT !.inv[i].events = Append(@, event) ]

\* resolve(result) or reject(err) of the promise execute() returned: the
\* first call settles it, a later one changes nothing.
Settle(B, i, how, result) ==
    IF B.inv[i].promise = "pending"
      THEN [ Did(B, i, how) EXCEPT
               !.inv[i].promise = IF how = "resolve" THEN "fulfilled" ELSE "rejected",
               !.inv[i].result = result ]
      ELSE Did(B, i, how)

\* cleanup(): unsubscribe the response handler, remove the abort listener.
CleanupListenerOnly(B, i) ==
    [ Did(B, i, "removeListener") EXCEPT !.inv[i].listening = FALSE ]

Cleanup(B, i) ==
    [ Did(Did(BusUnsubscribe(B, "ask-user-response", i), i, "unsubscribe"),
          i, "removeListener")
        EXCEPT !.inv[i].listening = FALSE ]

\* An abortHandler that resolves first and cleans up after.
AbortHandlerResolveFirst(B, i) == Cleanup(Settle(B, i, "resolve", CancelledResult), i)

\* abortHandler(): cleanup, then resolve with the cancelled result.
AbortHandler(B, i) == Settle(Cleanup(B, i), i, "resolve", CancelledResult)

\* A response handler that takes any response for its own.
ResponseHandlerAny(B, i, response, append) ==
    LET C == Cleanup(B, i) IN
    IF response.cancelled THEN Settle(C, i, "resolve", DeclinedResult)
    ELSE IF append = "throws" THEN Settle(C, i, "resolve", SaveFailedResult)
    ELSE Settle([ C EXCEPT !.env = Appended(@, EnvContent(@, response.answers)) ],
                i, "resolve", SavedResult(NamesFrom(response.answers, 0)))

\* A response handler that leaves its subscription in place.
ResponseHandlerNoCleanup(B, i, response, append) ==
    IF response.correlationId # CorrelationId(i) THEN B
    ELSE IF response.cancelled THEN Settle(B, i, "resolve", DeclinedResult)
    ELSE IF append = "throws" THEN Settle(B, i, "resolve", SaveFailedResult)
    ELSE Settle([ B EXCEPT !.env = Appended(@, EnvContent(@, response.answers)) ],
                i, "resolve", SavedResult(NamesFrom(response.answers, 0)))

\* responseHandler(response): a response with another correlationId is left
\* alone; on a match cleanup, then the cancelled branch, or the answers are
\* appended to .env (a failure there is caught and reported in the result).
ResponseHandler(B, i, response, append) ==
    IF response.correlationId # CorrelationId(i) THEN B
    ELSE LET C == Cleanup(B, i) IN
         IF response.cancelled THEN Settle(C, i, "resolve", DeclinedResult)
         ELSE IF append = "throws" THEN Settle(C, i, "resolve", SaveFailedResult)
         ELSE Settle([ C EXCEPT !.env = Appended(@, EnvContent(@, response.answers)) ],
                     i, "resolve", SavedResult(NamesFrom(response.answers, 0)))

\* The bus invokes the handlers hs, in order, with message m: the response
\* handler of an invocation runs; another subscriber keeps the message.
RECURSIVE Dispatch(_, _, _, _)
Dispatch(B, hs, m, append) ==
    IF hs = <<>> THEN B
    ELSE LET h == Head(hs)
         IN  Dispatch(IF h \in Invs
                        THEN ResponseHandler(B, h, m, append)
                        ELSE [ B EXCEPT !.delivered[h] = Append(@, m) ],
                      Tail(hs), m, append)

\* publish(message): the message goes to the handlers subscribed to its type
\* when publish is called.
BusPublishFirst(B, m, append) ==
    Dispatch(B, SubSeq(B.subs[m.type], 1, Min(1, Len(B.subs[m.type]))), m, append)

BusPublish(B, m, append) == Dispatch(B, B.subs[m.type], m, append)

\* No synchronous reply: the argument of Execute when no subscriber answers
\* the request from inside its handler.
NoReply == [ type |-> "none", correlationId |-> "", answers |-> NoAnswers, cancelled |-> FALSE ]

\* The correlationIds of the requests published so far.
Requested ==
    { published[k].correlationId :
        k \in { j \in DOMAIN published : published[j].type = "ask-user-request" } }

\* Number of responses published so far.
ResponsesPublished ==
    Cardinality({ j \in DOMAIN published : published[j].type = "ask-user-response" })

\* An execute() that publishes the request before it subscribes.
ExecuteBodyPublishFirst(B, i, outcome, dispatched, reply, append) ==
    LET B1 == Did([ B EXCEPT !.inv[i].pc = "executed", !.inv[i].listening = TRUE,
                             !.inv[i].publishing = outcome ], i, "addListener")
        B2 == Did(IF dispatched THEN BusPublish(B1, Request(i), append) ELSE B1,
                  i, "publish")
        B3 == IF reply.type = "none" THEN B2 ELSE BusPublish(B2, reply, append)
    IN  Did(BusSubscribe(B3, "ask-user-response", i), i, "subscribe")

\* The executor of execute()'s promise when the signal has not fired: add the
\* abort listener, subscribe the response handler, publish the request.  The
\* bus hands the request to its subscribers inside publish; `reply` is the
\* response one of them publishes from inside its handler, if any.
ExecuteBody(B, i, outcome, dispatched, reply, append) ==
    LET B1 == Did([ B EXCEPT !.inv[i].pc = "executed", !.inv[i].listening = TRUE,
                             !.inv[i].publishing = outcome ], i, "addListener")
        B2 == Did(BusSubscribe(B1, "ask-user-response", i), i, "subscribe")
        B3 == Did(IF dispatched THEN BusPublish(B2, Request(i), append) ELSE B2,
                  i, "publish")
    IN  IF reply.type = "none" THEN B3 ELSE BusPublish(B3, reply, append)

ACommit(B) ==
    /\ subs' = B.subs
    /\ delivered' = B.delivered
    /\ inv' = B.inv
    /\ env' = B.env

\* execute(signal) with the signal not aborted.
Execute(i, outcome, dispatched, reply, append) ==
    /\ inv[i].pc = "created" /\ ~signal[i]
    /\ outcome = "resolves" => dispatched
    /\ reply.type # "none" =>
          /\ dispatched
          /\ "ui" \in Range(subs["ask-user-request"])
          /\ ResponsesPublished < MaxResponses
          /\ reply.correlationId \in Requested \cup {CorrelationId(i), "Z"}
    /\ ACommit(ExecuteBody(Bus, i, outcome, dispatched, reply, append))
    /\ published' = published \o <<Request(i)>> \o
                      (IF reply.type = "none" THEN <<>> ELSE <<reply>>)
    /\ UNCHANGED signal

\* An execute() that looks at signal.aborted after it has subscribed and
\* published.
ExecuteAbortedLate(i) ==
    /\ inv[i].pc = "created" /\ signal[i]
    /\ ACommit(AbortHandler(ExecuteBody(Bus, i, "resolves", TRUE, NoReply, "ok"), i))
    /\ published' = Append(published, Request(i))
    /\ UNCHANGED signal

\* execute(signal) with the signal already aborted: abortHandler() runs at
\* once; nothing is subscribed or published.
ExecuteAborted(i) ==
    /\ inv[i].pc = "created" /\ signal[i]
    /\ ACommit(AbortHandler([ Bus EXCEPT !.inv[i].pc = "executed" ], i))
    /\ UNCHANGED <<published, signal>>

\* A publish whose promise is followed by cleanup whether it resolves or
\* rejects.
PublishSettlesCleansUp(i) ==
    /\ inv[i].publishing # "none"
    /\ ACommit(LET B == Cleanup([ Bus EXCEPT !.inv[i].publishing = "none" ], i)
               IN  IF inv[i].publishing = "rejects"
                     THEN Settle(B, i, "reject", PublishError)
                     ELSE B)
    /\ UNCHANGED <<published, signal>>

\* The promise publish() returned settles; on a rejection the catch callback
\* runs: cleanup, then reject.
PublishSettles(i) ==
    /\ inv[i].publishing # "none"
    /\ ACommit(LET B == [ Bus EXCEPT !.inv[i].publishing = "none" ]
               IN  IF inv[i].publishing = "rejects"
                     THEN Settle(Cleanup(B, i), i, "reject", PublishError)
                     ELSE B)
    /\ UNCHANGED <<published, signal>>

\* A consumer publishes a response.
Respond(response, append) ==
    /\ ResponsesPublished < MaxResponses
    /\ response.correlationId \in Requested \cup {"Z"}
    /\ ACommit(BusPublish(Bus, response, append))
    /\ published' = Append(published, response)
    /\ UNCHANGED signal

\* The AbortSignal of an invocation fires: the abort listener, if attached,
\* runs abortHandler().
Abort(i) ==
    /\ ~signal[i]
    /\ signal' = [ signal EXCEPT ![i] = TRUE ]
    /\ ACommit(IF inv[i].listening THEN AbortHandler(Bus, i) ELSE Bus)
    /\ UNCHANGED published

\* Another subscriber subscribes to its message type, or unsubscribes.
SubscribeOther(h) ==
    /\ h \notin Range(subs[HandlerType(h)])
    /\ ACommit(BusSubscribe(Bus, HandlerType(h), h))
    /\ UNCHANGED <<published, signal>>

UnsubscribeOther(h) ==
    /\ h \in Range(subs[HandlerType(h)])
    /\ ACommit(BusUnsubscribe(Bus, HandlerType(h), h))
    /\ UNCHANGED <<published, signal>>

AInitWith(envs) ==
    /\ subs = [ t \in MsgTypes |-> <<>> ]
    /\ delivered = [ h \in Handlers |-> <<>> ]
    /\ published = <<>>
    /\ inv = [ i \in Invs |-> NoInvocation ]
    /\ signal = [ i \in Invs |-> FALSE ]
    /\ env \in envs

AInit == AInitWith(EnvChoices)

\* The bus with no invocation made: the state the other components run in.
AIdle == AInitWith({ [ exists |-> FALSE, text |-> <<>> ] })

\* -------------------------------------------------------------- delegation

\* The SubAgentInvocation objects.
Execs == {"e1", "e2"}

\* An execute() call that has not been made.
NoExec == [ pc |-> "created", delegated |-> "none", result |-> "none" ]

\* No delegation made: the state the other components run in.
XIdle ==
    /\ exec = [ e \in Execs |-> NoExec ]
    /\ prompts = [ k \in Keys |-> <<>> ]

\* A heap slot holding no object.
NoQueue ==
    [ alive |-> FALSE, items |-> <<>>, draining |-> FALSE, elapsed |-> 0,
      mode |-> "auto", debounceMs |-> 0, cap |-> 0, dropPolicy |-> "keep",
      droppedCount |-> 0, send |-> "sendA" ]

\* The part of the state the queue code reads and writes, threaded through
\* the operators below.
World ==
    [ map |-> ANNOUNCE_QUEUES, heap |-> heap, loops |-> loops, timers |-> timers,
      sendLog |-> sendLog, lastSend |-> lastSend, failed |-> lastFailed ]

\* String.prototype.trim(), on a sequence of characters.
RECURSIVE TrimStart(_)
TrimStart(s) == IF s # <<>> /\ Head(s) = " " THEN TrimStart(Tail(s)) ELSE s

RECURSIVE TrimEnd(_)
TrimEnd(s) ==
    IF s # <<>> /\ s[Len(s)] = " " THEN TrimEnd(SubSeq(s, 1, Len(s) - 1)) ELSE s

Trim(s) == TrimEnd(TrimStart(s))

\* -------------------------------------------------------- delivery context

\* A threadId: a number, held in halves so that a fraction can be given (NaN
\* and the infinities are the kind "nan"), or a string.
NumberId(halves) == [ kind |-> "number", halves |-> halves, text |-> <<>> ]
StringId(text) == [ kind |-> "string", halves |-> 0, text |-> text ]
NotFinite == [ kind |-> "nan", halves |-> 0, text |-> <<>> ]

\* The origins callers pass with an item: none, or a DeliveryContext whose
\* properties are absent, blank, padded, in upper case or fractional.
OriginChoices ==
    {None} \cup
    { Some([ channel |-> channel, to |-> to, accountId |-> accountId,
             threadId |-> threadId ]) :
        channel \in { None, Some(<<" ">>), Some(<<" ", "A", " ">>), Some(<<"a">>) },
        to \in { None, Some(<<>>), Some(<<" ", "x">>), Some(<<"x">>) },
        accountId \in { None, Some(<<" ">>), Some(<<"k">>) },
        threadId \in { None, Some(NotFinite), Some(NumberId(3)), Some(NumberId(-1)),
                       Some(StringId(<<>>)), Some(StringId(<<" ", "7">>)) } }

\* String.prototype.toLowerCase(), on the letters in use.
ToLowerCase(s) == [ i \in DOMAIN s |-> IF s[i] = "A" THEN "a" ELSE s[i] ]

\* Whether an optional string is truthy: present and not the empty string.
Truthy(o) == IsSome(o) /\ Val(o) # <<>>

\* value || undefined
OrUndefined(o) == IF Truthy(o) THEN o ELSE None

\* Math.trunc, on halves.
Trunc(halves) ==
    IF halves >= 0 THEN (halves \div 2) * 2 ELSE 0 - (((0 - halves) \div 2) * 2)

\* channel?.trim().toLowerCase() || undefined
NormalizeMessageChannel(channel) ==
    IF IsSome(channel) THEN OrUndefined(Some(ToLowerCase(Trim(Val(channel))))) ELSE None

\* accountId?.trim() || undefined
NormalizeAccountId(accountId) ==
    IF IsSome(accountId) THEN OrUndefined(Some(Trim(Val(accountId)))) ELSE None

NormalizeDeliveryContext(context) ==
    IF context = None THEN None
    ELSE
      LET c == Val(context)
          channel == NormalizeMessageChannel(c.channel)
          to == IF IsSome(c.to) THEN Some(Trim(Val(c.to))) ELSE None
          accountId == NormalizeAccountId(c.accountId)
          threadId ==
              IF IsSome(c.threadId) /\ Val(c.threadId).kind = "number"
                THEN Some(NumberId(Trunc(Val(c.threadId).halves)))
              ELSE IF IsSome(c.threadId) /\ Val(c.threadId).kind = "string"
                THEN Some(StringId(Trim(Val(c.threadId).text)))
              ELSE None
          normalizedThreadId ==
              IF IsSome(threadId) /\ Val(threadId).kind = "string"
                   /\ Val(threadId).text = <<>>
                THEN None ELSE threadId
      IN  IF ~Truthy(channel) /\ ~Truthy(to) /\ ~Truthy(accountId)
               /\ normalizedThreadId = None
            THEN None
            ELSE Some([ channel |-> OrUndefined(channel), to |-> OrUndefined(to),
                        accountId |-> accountId, threadId |-> normalizedThreadId ])

\* String(n) of a whole number.
RECURSIVE Digits(_)
Digits(n) ==
    LET d == <<"0", "1", "2", "3", "4", "5", "6", "7", "8", "9">>[(n % 10) + 1]
    IN  IF n < 10 THEN <<d>> ELSE Digits(n \div 10) \o <<d>>

\* String(threadId)
ThreadIdString(id) ==
    IF id.kind = "string" THEN id.text
    ELSE IF id.halves < 0 THEN <<"-">> \o Digits((0 - id.halves) \div 2)
    ELSE Digits(id.halves \div 2)

\* A key built whenever the context has a channel.
DeliveryContextKeyForChannel(context) ==
    LET normalized == NormalizeDeliveryContext(context) IN
    IF normalized = None \/ ~Truthy(Val(normalized).channel) THEN None
    ELSE Some(Val(Val(normalized).channel) \o <<"|">>)

\* deliveryContextKey(context): `channel|to|accountId|threadId`, undefined
\* without a channel or without a destination.
DeliveryContextKey(context) ==
    LET normalized == NormalizeDeliveryContext(context) IN
    IF normalized = None \/ ~Truthy(Val(normalized).channel) \/ ~Truthy(Val(normalized).to)
      THEN None
      ELSE LET n == Val(normalized)
               threadId == IF IsSome(n.threadId) /\ n.threadId # Some(StringId(<<>>))
                             THEN ThreadIdString(Val(n.threadId)) ELSE <<>>
               accountId == IF IsSome(n.accountId) THEN Val(n.accountId) ELSE <<>>
           IN  Some(Val(n.channel) \o <<"|">> \o Val(n.to) \o <<"|">> \o accountId
                      \o <<"|">> \o threadId)

\* What enqueueAnnounce makes of an item's origin: the origin and originKey of
\* the item it pushes.
Originated(context) ==
    [ context |-> context,
      origin |-> NormalizeDeliveryContext(context),
      originKey |-> DeliveryContextKey(NormalizeDeliveryContext(context)) ]

\* ------------------------------------------------------- getAnnounceQueue

\* Math.max(0, settings.debounceMs)
ClampDebounce(ms) == Max(0, ms)

\* typeof settings.cap === 'number' && settings.cap > 0
CapGiven(settings) == IsSome(settings.cap) /\ Val(settings.cap) > 0

\* An `if (existing)` branch that leaves the state's send callback alone.
UpdateExistingKeepsSend(s, settings, send) ==
    [ s EXCEPT
        !.mode = settings.mode,
        !.debounceMs = IF IsSome(settings.debounceMs)
                         THEN ClampDebounce(Val(settings.debounceMs))
                         ELSE s.debounceMs,
        !.cap = IF CapGiven(settings) THEN Val(settings.cap) ELSE s.cap,
        !.dropPolicy = IF settings.dropPolicy # "undefined"
                         THEN settings.dropPolicy ELSE s.dropPolicy ]

\* The branch `if (existing)`: the caller's settings overwrite the state's.
UpdateExisting(s, settings, send) ==
    [ s EXCEPT
        !.mode = settings.mode,
        !.debounceMs = IF IsSome(settings.debounceMs)
                         THEN ClampDebounce(Val(settings.debounceMs))
                         ELSE s.debounceMs,
        !.cap = IF CapGiven(settings) THEN Val(settings.cap) ELSE s.cap,
        !.dropPolicy = IF settings.dropPolicy # "undefined"
                         THEN settings.dropPolicy ELSE s.dropPolicy,
        !.send = send ]

\* The object literal `created`.
CreateState(settings, send) ==
    [ alive |-> TRUE,
      items |-> <<>>,
      draining |-> FALSE,
      elapsed |-> 0,
      mode |-> settings.mode,
      debounceMs |-> IF IsSome(settings.debounceMs)
                       THEN ClampDebounce(Val(settings.debounceMs))
                       ELSE DefaultDebounceMs,
      cap |-> IF CapGiven(settings) THEN Val(settings.cap) ELSE DefaultCap,
      dropPolicy |-> IF settings.dropPolicy # "undefined"
                       THEN settings.dropPolicy ELSE "summarize",
      droppedCount |-> 0,
      send |-> send ]

FreeIds(W) == { o \in ObjIds : ~W.heap[o].alive }

\* The id a newly constructed object gets.
Alloc(W) == CHOOSE o \in FreeIds(W) : \A p \in FreeIds(W) : o <= p

GetAnnounceQueue(W, key, settings, send) ==
    IF W.map[key] # 0
      THEN [ W EXCEPT !.heap[W.map[key]] = UpdateExisting(@, settings, send) ]
      ELSE LET o == Alloc(W) IN
           [ W EXCEPT !.heap[o] = CreateState(settings, send), !.map[key] = o ]

\* -------------------------------------------------- scheduleAnnounceDrain

\* while (queue.items.length > 0 || queue.droppedCount > 0)
LoopCondition(s) == Len(s.items) > 0 \/ s.droppedCount > 0

\* The debounce test left out: the loop never waits.
DebounceSkipped(s) == FALSE

\* if (Date.now() - queue.lastEnqueuedAt < queue.debounceMs)
DebouncePending(s) == s.elapsed < s.debounceMs

\* setTimeout(resolve, queue.debounceMs / 2): the timer module truncates the
\* delay and raises a delay below 1 to 1.
SleepDelay(s) == Max(1, s.debounceMs \div 2)

\* queue.items.shift(): what is left in the array.
Shifted(items) == Tail(items)

\* The removal test never true: the key stays in the Map.
NeverEmpty(s) == FALSE

\* The finally block's test for removing the key.
FullyEmpty(s) == Len(s.items) = 0 /\ s.droppedCount = 0

\* The value the finally block gives queue.draining.
DrainingAfterExit == FALSE

\* The re-schedule left out: nothing restarts the loop.
NotRescheduled(pending) == pending

\* setTimeout(() => scheduleAnnounceDrain(key), 100): the key's armed timers.
Rescheduled(pending) == Append(pending, RescheduleDelayMs)

\* A finally block that only clears the flag: the key is neither removed nor
\* given a timer.
DrainExitFlagOnly(W, q, key) == [ W EXCEPT !.heap[q].draining = FALSE ]

\* The finally block of the drain loop on object q, started for `key`.
DrainExit(W, q, key) ==
    LET W1 == [ W EXCEPT !.heap[q].draining = DrainingAfterExit ]
    IN  IF FullyEmpty(W1.heap[q])
          THEN [ W1 EXCEPT !.map[key] = 0 ]
          ELSE [ W1 EXCEPT !.timers[key] = Rescheduled(@) ]

\* A retry: the failed item is put back at the head of the array.
RequeuedAfterFailure(items, item) == <<item>> \o items

\* What `catch` does with the item whose send failed: it is logged and
\* nothing is put back.
AfterFailure(items, item) == items

\* The drain loop on object q from the top of `while` to its next await, or
\* through `finally` when it exits.  `outcome` is what a call of send does.
DrainRun(W, q, key, outcome) ==
    LET s == W.heap[q] IN
    IF ~LoopCondition(s)
      THEN DrainExit(W, q, key)
    ELSE IF DebouncePending(s)
      THEN [ W EXCEPT !.loops = Append(@, [ q |-> q, key |-> key, pc |-> "sleep",
                                            remaining |-> SleepDelay(s),
                                            item |-> 0 ]) ]
    ELSE IF Len(s.items) = 0
      THEN DrainExit(W, q, key)            \* if (!next) break
    ELSE
      LET next == Head(s.items)
          W1 == [ W EXCEPT
                    !.heap[q].items = Shifted(@),
                    !.sendLog[key] = Append(@, next),
                    !.lastSend = [ key |-> key, item |-> next, elapsed |-> s.elapsed,
                                   debounceMs |-> s.debounceMs, via |-> s.send ] ]
      IN  IF outcome = "throws"
            THEN DrainExit([ W1 EXCEPT !.failed[key] = next,
                                       !.heap[q].items = AfterFailure(@, next) ],
                           q, key)
            ELSE [ W1 EXCEPT !.loops = Append(@, [ q |-> q, key |-> key, pc |-> "send",
                                                   remaining |-> 0,
                                                   item |-> next ]) ]

\* The guard without the draining flag.
DrainRefusedWhenAbsent(W, key) == W.map[key] = 0

\* if (!queue || queue.draining) return;
DrainRefused(W, key) == W.map[key] = 0 \/ W.heap[W.map[key]].draining

\* The flag left unset when the loop starts.
DrainingNotSet == FALSE

\* The value queue.draining gets before the loop starts.
DrainingAtStart == TRUE

ScheduleAnnounceDrain(W, key, outcome) ==
    IF DrainRefused(W, key)
      THEN W
      ELSE LET q == W.map[key] IN
           DrainRun([ W EXCEPT !.heap[q].draining = DrainingAtStart ], q, key, outcome)

\* -------------------------------------------------------- enqueueAnnounce

\* unshift instead of push: the item goes to the head of the array.
PushedFirst(s, item) == <<item>> \o s.items

\* queue.items.push({ ...params.item, origin, originKey })
Pushed(s, item) == Append(s.items, item)

EnqueueAnnounce(W, key, item, settings, send, outcome) ==
    LET W1 == GetAnnounceQueue(W, key, settings, send)
        q  == W1.map[key]
        W2 == [ W1 EXCEPT !.heap[q].elapsed = 0,          \* lastEnqueuedAt = Date.now()
                          !.heap[q].items = Pushed(W1.heap[q], item) ]
    IN  ScheduleAnnounceDrain(W2, key, outcome)

\* The loop body without its try/catch: a send that throws at once reaches
\* the caller.
EnqueueReturnUncaught(outcome) == IF outcome = "throws" THEN "threw" ELSE "true"

\* What enqueueAnnounce hands its caller: the drain loop is an async function
\* whose body is wrapped in try/catch, so a failing send never reaches the
\* caller and the call returns true.
EnqueueReturn(outcome) == "true"

\* ------------------------------------------------------ garbage collection

\* An object that neither the Map nor a suspended loop refers to is gone.
Referenced(W, o) ==
    \/ \E k \in Keys : W.map[k] = o
    \/ \E i \in DOMAIN W.loops : W.loops[i].q = o

Collect(W) ==
    [ W EXCEPT !.heap = [ o \in ObjIds |-> IF Referenced(W, o) THEN W.heap[o] ELSE NoQueue ] ]

Commit(W) ==
    LET C == Collect(W) IN
    /\ ANNOUNCE_QUEUES' = C.map
    /\ heap' = C.heap
    /\ loops' = C.loops
    /\ timers' = C.timers
    /\ sendLog' = C.sendLog
    /\ lastSend' = C.lastSend
    /\ lastFailed' = C.failed

\* ----------------------------------------------------------------- actions

QInit ==
    /\ ANNOUNCE_QUEUES = [ k \in Keys |-> 0 ]
    /\ heap = [ o \in ObjIds |-> NoQueue ]
    /\ loops = <<>>
    /\ timers = [ k \in Keys |-> <<>> ]
    /\ sendLog = [ k \in Keys |-> <<>> ]
    /\ lastSend = [ key |-> "none", item |-> 0, elapsed |-> 0, debounceMs |-> 0,
                    via |-> "none" ]
    /\ enqCount = [ k \in Keys |-> 0 ]
    /\ lastFailed = [ k \in Keys |-> 0 ]
    /\ lastReentrant = [ k \in Keys |-> 0 ]
    /\ burst = [ k \in Keys |-> 0 ]
    /\ lastReturn = "none"
    /\ enqArgs = [ k \in Keys |-> NoArgs ]
    /\ lastOrigin = Originated(None)

SendInFlight(key) == \E i \in DOMAIN loops : loops[i].key = key /\ loops[i].pc = "send"

\* Whether an enqueue for `key` arrives closer than debounceMs to the one before.
InWindow(key) ==
    /\ ANNOUNCE_QUEUES[key] # 0
    /\ DebouncePending(heap[ANNOUNCE_QUEUES[key]])

RECURSIVE SumOver(_, _)
SumOver(f, S) ==
    IF S = {} THEN 0
    ELSE LET x == CHOOSE y \in S : TRUE IN f[x] + SumOver(f, S \ {x})

TotalEnqueued == SumOver(enqCount, Keys)

\* A caller (possibly a running send callback) calls enqueueAnnounce with the
\* key's next item (items are numbered per key in the order of the calls).
EnqueueFrom(key, origin, settings, send, outcome, limit) ==
    /\ TotalEnqueued < limit
    /\ ANNOUNCE_QUEUES[key] # 0 \/ FreeIds(World) # {}
    /\ Commit(EnqueueAnnounce(World, key, enqCount[key] + 1, settings, send, outcome))
    /\ enqCount' = [ enqCount EXCEPT ![key] = @ + 1 ]
    /\ lastReentrant' = IF SendInFlight(key)
                          THEN [ lastReentrant EXCEPT ![key] = enqCount[key] + 1 ]
                          ELSE lastReentrant
    /\ burst' = [ burst EXCEPT ![key] = IF InWindow(key) THEN @ + 1 ELSE 1 ]
    /\ lastReturn' = EnqueueReturn(outcome)
    /\ enqArgs' = [ enqArgs EXCEPT ![key] = [ settings |-> settings,
                                              sends |-> Append(@.sends, send) ] ]
    /\ lastOrigin' = Originated(origin)

\* The same for an item without an origin.
Enqueue(key, settings, send, outcome, limit) ==
    EnqueueFrom(key, None, settings, send, outcome, limit)

\* The debounce sleep of a loop is over: the loop re-checks.
Wake(i, outcome) ==
    /\ i \in DOMAIN loops
    /\ loops[i].pc = "sleep"
    /\ loops[i].remaining = 0
    /\ Commit(DrainRun([ World EXCEPT !.loops = RemoveAt(@, i) ],
                       loops[i].q, loops[i].key, outcome))
    /\ UNCHANGED <<enqCount, lastReentrant, burst, lastReturn, enqArgs, lastOrigin>>

\* The promise of a send in flight resolves: the loop goes round.
SendResolve(i, outcome) ==
    /\ i \in DOMAIN loops
    /\ loops[i].pc = "send"
    /\ Commit(DrainRun([ World EXCEPT !.loops = RemoveAt(@, i) ],
                       loops[i].q, loops[i].key, outcome))
    /\ UNCHANGED <<enqCount, lastReentrant, burst, lastReturn, enqArgs, lastOrigin>>

\* The promise of a send in flight rejects: catch logs, finally runs.
SendReject(i) ==
    /\ i \in DOMAIN loops
    /\ loops[i].pc = "send"
    /\ LET q == loops[i].q
           W == [ World EXCEPT !.loops = RemoveAt(@, i),
                               !.failed[loops[i].key] = loops[i].item,
                               !.heap[q].items = AfterFailure(@, loops[i].item) ]
       IN  Commit(DrainExit(W, q, loops[i].key))
    /\ UNCHANGED <<enqCount, lastReentrant, burst, lastReturn, enqArgs, lastOrigin>>

\* A re-schedule timer fires: setTimeout(() => scheduleAnnounceDrain(key), 100).
TimerFire(key, outcome) ==
    /\ Len(timers[key]) > 0
    /\ Head(timers[key]) = 0
    /\ Commit(ScheduleAnnounceDrain([ World EXCEPT !.timers[key] = Tail(@) ], key, outcome))
    /\ UNCHANGED <<enqCount, lastReentrant, burst, lastReturn, enqArgs, lastOrigin>>

\* The delays after which something changes: a sleep or a timer runs out, or
\* a debounce window closes.
Deltas ==
    { loops[i].remaining : i \in { j \in DOMAIN loops : loops[j].pc = "sleep" } }
    \cup UNION { Range(timers[k]) : k \in Keys }
    \cup { heap[o].debounceMs - heap[o].elapsed : o \in { p \in ObjIds : heap[p].alive } }

\* d milliseconds pass.
AdvanceTime(d) ==
    /\ d > 0
    /\ heap' = [ o \in ObjIds |->
                   [ heap[o] EXCEPT !.elapsed = Min(@ + d, heap[o].debounceMs) ] ]
    /\ loops' = [ i \in DOMAIN loops |->
                    [ loops[i] EXCEPT !.remaining = Max(0, @ - d) ] ]
    /\ timers' = [ k \in Keys |->
                     [ j \in DOMAIN timers[k] |-> Max(0, timers[k][j] - d) ] ]
    /\ UNCHANGED <<ANNOUNCE_QUEUES, sendLog, lastSend, enqCount, lastFailed,
                   lastReentrant, burst, lastReturn, enqArgs, lastOrigin>>


\* ======================================================== SubagentRegistry

RunIds == {"r1", "r2"}

\* The characters of session keys: a blank and two others.  A session key is
\* a sequence of them.
Chars == {" ", "m", "o"}

\* The arguments of listRunsForRequester.
KeyInputs == UNION { [ 1..n -> Chars ] : n \in 0..MaxKeyLen }

\* The SubagentRunRecord values callers register: the fields the registry
\* reads (runId, requesterSessionKey, archiveAtMs) and those it only stores.
RecordChoices ==
    { [ runId |-> id, requesterSessionKey |-> req, task |-> "t", createdAt |-> 0,
        startedAt |-> None, endedAt |-> None, outcome |-> None, archiveAtMs |-> arch ] :
      id \in RunIds, req \in {<<"m">>}, arch \in {None, Some(1)} }

\* The Partial<SubagentRunRecord> values callers pass to updateRun, as the
\* fields they set.
UpdateChoices ==
    { [ f \in {"endedAt"} |-> Some(2) ],
      [ f \in {"archiveAtMs"} |-> Some(0) ] }

\* Updates that carry a runId: Partial<SubagentRunRecord> allows every field.
RekeyChoices == { [ f \in {"runId"} |-> id ] : id \in RunIds }

NoRecord ==
    [ runId |-> "", requesterSessionKey |-> <<>>, task |-> "", createdAt |-> 0,
      startedAt |-> None, endedAt |-> None, outcome |-> None, archiveAtMs |-> None ]

NoUpdates == [ f \in {} |-> None ]

EmptyRuns == [ id \in RunIds |-> <<>> ]

\* The fields of a record and those declared with `?`.
RecordFields ==
    {"runId", "requesterSessionKey", "task", "createdAt", "startedAt", "endedAt",
     "outcome", "archiveAtMs"}
OptionalFields == {"startedAt", "endedAt", "outcome", "archiveAtMs"}

\* A map value that is null: load() casts what JSON.parse returns to
\* Record<string, SubagentRunRecord> without looking at it.
NullEntry == [ null |-> TRUE ]

\* Whether the map holds a record (and not nothing or null) under the runId.
HoldsRecord(map, id) == map[id] # <<>> /\ map[id][1] # NullEntry

\* Whether some value of the map is null.
HasNull(map) == \E id \in RunIds : map[id] = <<NullEntry>>

\* A serialization of one map value that leaves out every optional property.
StringifyEntryAll(e) ==
    IF e = NullEntry THEN NullEntry
    ELSE [ f \in { g \in DOMAIN e : g \notin OptionalFields } |-> e[f] ]

\* JSON.stringify of one map value: a property whose value is undefined is
\* left out, the others are written with their values.
StringifyEntry(e) ==
    IF e = NullEntry THEN NullEntry
    ELSE [ f \in { g \in DOMAIN e : ~(g \in OptionalFields /\ e[g] = None) } |->
             IF f \in OptionalFields THEN Val(e[f]) ELSE e[f] ]

\* JSON.parse of one value of the file's object: the properties the text
\* holds; an optional one it does not hold reads as undefined.
ParseEntry(o) ==
    IF o = NullEntry THEN NullEntry
    ELSE [ f \in RecordFields |->
             IF f \in OptionalFields
               THEN (IF f \in DOMAIN o THEN Some(o[f]) ELSE None)
               ELSE o[f] ]

\* JSON.stringify(Object.fromEntries(this.runs.entries()))
Stringify(map) ==
    [ id \in RunIds |-> IF map[id] = <<>> THEN <<>> ELSE << StringifyEntry(map[id][1]) >> ]

\* new Map(Object.entries(JSON.parse(content)))
Parse(data) ==
    [ id \in RunIds |-> IF data[id] = <<>> THEN <<>> ELSE << ParseEntry(data[id][1]) >> ]

\* What registry.json can hold when a registry instance starts: nothing, text
\* that does not parse, an object written by save(), or an object some value
\* of which is null.
InitFiles ==
    { [ state |-> "absent", data |-> EmptyRuns ],
      [ state |-> "corrupt", data |-> EmptyRuns ],
      [ state |-> "ok",
        data |-> [ id \in RunIds |->
                     IF id = "r1"
                       THEN << [ runId |-> "r1", requesterSessionKey |-> <<"o">>,
                                 task |-> "old", createdAt |-> 0 ] >>
                       ELSE <<>> ] ],
      [ state |-> "ok",
        data |-> [ id \in RunIds |-> IF id = "r1" THEN <<NullEntry>> ELSE <<>> ] ] }

\* Whether a write of registry.json succeeds.
WriteOutcomes == {"ok", "fails"}

\* No reference held.
NoHandle == [ from |-> "none", alias |-> "", val |-> NoRecord, snap |-> NoRecord,
              leaked |-> FALSE ]

\* The registry's fields, its file and what it last wrote, threaded through
\* the operators below.
Registry ==
    [ runs |-> runs, loaded |-> loaded, sweeper |-> sweeper, intervals |-> intervals,
      file |-> file, persisted |-> persisted, reads |-> reads ]

\* A startSweeper() that arms a timer whether or not one is armed.
StartSweeperUnguarded(R) == [ R EXCEPT !.sweeper = TRUE, !.intervals = @ + 1 ]

\* startSweeper(): `if (this.sweeper) return`, else setInterval.
StartSweeper(R) ==
    IF R.sweeper THEN R ELSE [ R EXCEPT !.sweeper = TRUE, !.intervals = @ + 1 ]

\* stopSweeper(): clearInterval and this.sweeper = null.
StopSweeper(R) ==
    IF R.sweeper THEN [ R EXCEPT !.sweeper = FALSE, !.intervals = @ - 1 ] ELSE R

\* The body of load() without its `if (this.loaded) return`: the file is
\* read again on every call.
LoadAlways(R) ==
    StartSweeper(
        [ R EXCEPT !.runs = IF R.file.state = "ok" THEN Parse(R.file.data)
                            ELSE IF R.file.state = "corrupt" THEN EmptyRuns
                            ELSE R.runs,
                   !.reads = IF R.file.state = "absent" THEN @ ELSE @ + 1,
                   !.loaded = TRUE ])

\* load(): its body has no await, so it runs in one piece.  An existing file
\* is read and replaces the map, a failing read or parse clears it, an
\* absent file is not read and leaves the map as it is.
Load(R) ==
    IF R.loaded THEN R
    ELSE StartSweeper(
        [ R EXCEPT !.runs = IF R.file.state = "ok" THEN Parse(R.file.data)
                            ELSE IF R.file.state = "corrupt" THEN EmptyRuns
                            ELSE R.runs,
                   !.reads = IF R.file.state = "absent" THEN @ ELSE @ + 1,
                   !.loaded = TRUE ])

\* save() with a write that fails half way: the file is left with text that
\* does not parse.
SaveTruncating(R, outcome) ==
    IF outcome = "ok"
      THEN [ R EXCEPT !.file = [ state |-> "ok", data |-> Stringify(R.runs) ],
                      !.persisted = R.runs ]
      ELSE [ R EXCEPT !.file = [ state |-> "corrupt", data |-> EmptyRuns ] ]

\* save(): its body has no await.  The whole map is written; a failing
\* mkdir or write is logged and the file keeps what it held.
Save(R, outcome) ==
    IF outcome = "ok"
      THEN [ R EXCEPT !.file = [ state |-> "ok", data |-> Stringify(R.runs) ],
                      !.persisted = R.runs ]
      ELSE R

\* A set that starts from a map of its own: the other entries are gone.
RunsSetFresh(R, record) == [ R EXCEPT !.runs = [ EmptyRuns EXCEPT ![record.runId] = <<record>> ] ]

\* this.runs.set(record.runId, record)
RunsSet(R, record) == [ R EXCEPT !.runs[record.runId] = <<record>> ]

\* An assignment that replaces the record: the fields not provided are unset.
AssignedWhole(existing, updates) ==
    [ f \in DOMAIN existing |->
        IF f \in DOMAIN updates THEN updates[f]
        ELSE IF f \in OptionalFields THEN None ELSE existing[f] ]

\* Object.assign(existing, updates)
Assigned(existing, updates) ==
    [ f \in DOMAIN existing |-> IF f \in DOMAIN updates THEN updates[f] ELSE existing[f] ]

\* entry.archiveAtMs && entry.archiveAtMs <= now: an archiveAtMs of 0 is falsy.
Expired(entry, now) ==
    /\ IsSome(entry.archiveAtMs)
    /\ Val(entry.archiveAtMs) # 0
    /\ Val(entry.archiveAtMs) <= now

\* The runIds the loop of sweep() deletes, when no value of the map is null.
Evicted(R, now) == { id \in RunIds : R.runs[id] # <<>> /\ Expired(R.runs[id][1], now) }

\* this.runs.size === 0
RunsEmpty(R) == \A id \in RunIds : R.runs[id] = <<>>

\* A getRun(runId) that answers from registry.json while nothing is loaded.
GetRunFromFile(runId) == IF loaded THEN runs[runId] ELSE file.data[runId]

\* getRun(runId): the value under the runId, <<>> for undefined.
GetRun(runId) == runs[runId]

\* What a caller of listRunsForRequester gets when the filter callback reads
\* requesterSessionKey of null: a TypeError instead of a list.
ListThrows == { [ threw |-> "TypeError" ] }

\* listRunsForRequester(requesterSessionKey): the list as the set of its
\* records.
ListRunsForRequester(requesterSessionKey) ==
    LET key == Trim(requesterSessionKey)
    IN  IF key = <<>> THEN {}
        ELSE IF HasNull(runs) THEN ListThrows
        ELSE { runs[id][1] : id \in { i \in RunIds : runs[i] # <<>>
                                         /\ runs[i][1].requesterSessionKey = key } }

\* The caller's reference after the map stopped holding the objects under ids
\* (runs.set of another object, runs.delete, a new Map): the object lives on
\* outside the map.
HeldReplaced(h, ids) == IF h.alias \in ids THEN [ h EXCEPT !.alias = "" ] ELSE h

\* The caller's reference after Object.assign on the object under id: the
\* object the caller holds is the one assigned to.
HeldAssigned(h, id, updates) ==
    IF h.alias = id THEN [ h EXCEPT !.val = Assigned(@, updates) ] ELSE h

RCommit(R) ==
    /\ runs' = R.runs
    /\ loaded' = R.loaded
    /\ sweeper' = R.sweeper
    /\ intervals' = R.intervals
    /\ file' = R.file
    /\ persisted' = R.persisted
    /\ reads' = R.reads

\* A suspended call: the method, the await it is at, its arguments, and how
\* the write of the save() it awaits went.
Call(op, pc, runId, record, updates) ==
    [ op |-> op, pc |-> pc, runId |-> runId, record |-> record, updates |-> updates,
      write |-> "none" ]

\* The place of a suspended call in the list of them.  Any of the suspended
\* calls may be the next to resume, so the order of the list carries nothing
\* and the list is kept sorted.
CallRank(c) ==
    LET op == CASE c.op = "registerRun" -> 0 [] c.op = "updateRun" -> 1
                [] c.op = "deleteRun" -> 2 [] OTHER -> 3
        pc == IF c.pc = "loaded" THEN 0 ELSE 1
        id == CASE c.runId = "r1" -> 1 [] c.runId = "r2" -> 2 [] OTHER -> 0
        arch == IF IsSome(c.record.archiveAtMs) THEN 1 ELSE 0
        upd == IF "endedAt" \in DOMAIN c.updates THEN 1
               ELSE IF "archiveAtMs" \in DOMAIN c.updates THEN 2 ELSE 0
        write == IF c.write = "fails" THEN 1 ELSE 0
    IN  ((((op * 2 + pc) * 3 + id) * 2 + arch) * 3 + upd) * 2 + write

\* The list of suspended calls with one more.
Suspended(s, c) ==
    LET k == Cardinality({ j \in DOMAIN s : CallRank(s[j]) <= CallRank(c) })
    IN  SubSeq(s, 1, k) \o <<c>> \o SubSeq(s, k + 1, Len(s))

\* The list of suspended calls after call i has run to its `await
\* this.save()`, the write having gone as `outcome` says.
Resumed(s, i, outcome) ==
    Suspended(RemoveAt(s, i), [ s[i] EXCEPT !.pc = "saved", !.write = outcome ])

\* What load() would make of the file.
FileView(f) == IF f.state = "ok" THEN Parse(f.data) ELSE EmptyRuns

RInitWith(files) ==
    /\ runs = EmptyRuns
    /\ loaded = FALSE
    /\ sweeper = FALSE
    /\ intervals = 0
    /\ file \in files
    /\ calls = <<>>
    /\ rnow = 0
    /\ started = 0
    /\ regCalls = [ id \in RunIds |-> 0 ]
    /\ regDone = [ id \in RunIds |-> 0 ]
    /\ regRecord = [ id \in RunIds |-> NoRecord ]
    /\ touched = {}
    /\ rejected = FALSE
    /\ startFile = file
    /\ persisted = FileView(file)
    /\ reads = 0
    /\ restarts = 0
    /\ held = NoHandle

RInit == RInitWith(InitFiles)

\* The registry of a behaviour that only uses the announce queue.
RIdle == RInitWith({ [ state |-> "absent", data |-> EmptyRuns ] })

\* The bookkeeping of registerRun calls and of the runIds other calls named.
rbook == <<regCalls, regDone, regRecord, touched>>

\* What belongs to the process rather than to a call.
rproc == <<rejected, startFile, restarts>>

\* A call starts: every mutating call and sweep() begin with `await this.load()`.
Begin(c) ==
    /\ RCommit(Load(Registry))
    /\ held' = IF loaded THEN held ELSE HeldReplaced(held, RunIds)
    /\ calls' = Suspended(calls, c)

\* Whether a sweep() is suspended at one of its awaits.  It was started by a
\* timer callback and awaits promises that are already settled, so it runs to
\* its end in the microtasks of that callback: no caller's code runs until
\* it has.
SweepInFlight == \E i \in DOMAIN calls : calls[i].op = "sweep"

\* A call made by a caller starts.
StartCall(c) ==
    /\ ~SweepInFlight
    /\ started < MaxCalls
    /\ started' = started + 1
    /\ Begin(c)

\* registerRun(record), up to `await this.load()`.
RegisterStart(record) ==
    /\ StartCall(Call("registerRun", "loaded", record.runId, record, NoUpdates))
    /\ regCalls' = [ regCalls EXCEPT ![record.runId] = @ + 1 ]
    /\ regRecord' = [ regRecord EXCEPT ![record.runId] = record ]
    /\ UNCHANGED <<rnow, regDone, touched, rproc>>

\* registerRun: this.runs.set(...) and save(), up to `await this.save()`.
\* The map now holds the object the caller passed; `keep` says whether the
\* caller's reference to it is followed.
RegisterSet(i, outcome, keep) ==
    /\ i \in DOMAIN calls
    /\ calls[i].op = "registerRun" /\ calls[i].pc = "loaded"
    /\ RCommit(Save(RunsSet(Registry, calls[i].record), outcome))
    /\ held' = IF keep /\ held = NoHandle
                 THEN [ from |-> "passed", alias |-> calls[i].runId,
                        val |-> calls[i].record, snap |-> calls[i].record,
                        leaked |-> FALSE ]
                 ELSE HeldReplaced(held, {calls[i].runId})
    /\ calls' = Resumed(calls, i, outcome)
    /\ UNCHANGED <<rnow, started, rbook, rproc>>

\* registerRun: this.startSweeper(), and the call completes.
RegisterFinish(i) ==
    /\ i \in DOMAIN calls
    /\ calls[i].op = "registerRun" /\ calls[i].pc = "saved"
    /\ RCommit(StartSweeper(Registry))
    /\ calls' = RemoveAt(calls, i)
    /\ regDone' = [ regDone EXCEPT ![calls[i].runId] = @ + 1 ]
    /\ UNCHANGED <<rnow, started, regCalls, regRecord, touched, rproc, held>>

\* updateRun(runId, updates), up to `await this.load()`.
UpdateStart(runId, updates) ==
    /\ StartCall(Call("updateRun", "loaded", runId, NoRecord, updates))
    /\ touched' = touched \cup {runId}
    /\ UNCHANGED <<rnow, regCalls, regDone, regRecord, rproc>>

\* updateRun that returns without save() when the assignment changes no value.
UpdateApplyIfChanged(i, outcome) ==
    /\ i \in DOMAIN calls
    /\ calls[i].op = "updateRun" /\ calls[i].pc = "loaded"
    /\ HoldsRecord(runs, calls[i].runId)
    /\ IF Assigned(runs[calls[i].runId][1], calls[i].updates) = runs[calls[i].runId][1]
       THEN /\ calls' = RemoveAt(calls, i)
            /\ UNCHANGED <<runs, loaded, sweeper, intervals, file, persisted, reads, held>>
       ELSE /\ RCommit(Save([ Registry EXCEPT !.runs[calls[i].runId] =
                               << Assigned(@[1], calls[i].updates) >> ], outcome))
            /\ held' = HeldAssigned(held, calls[i].runId, calls[i].updates)
            /\ calls' = Resumed(calls, i, outcome)
    /\ UNCHANGED <<rnow, started, rbook, rproc>>

\* updateRun with a record under the runId: Object.assign and save().
UpdateApply(i, outcome) ==
    /\ i \in DOMAIN calls
    /\ calls[i].op = "updateRun" /\ calls[i].pc = "loaded"
    /\ HoldsRecord(runs, calls[i].runId)
    /\ RCommit(Save([ Registry EXCEPT !.runs[calls[i].runId] =
                        << Assigned(@[1], calls[i].updates) >> ], outcome))
    /\ held' = HeldAssigned(held, calls[i].runId, calls[i].updates)
    /\ calls' = Resumed(calls, i, outcome)
    /\ UNCHANGED <<rnow, started, rbook, rproc>>

\* updateRun with nothing, or null, under the runId: `if (!existing) return`.
UpdateUnknown(i) ==
    /\ i \in DOMAIN calls
    /\ calls[i].op = "updateRun" /\ calls[i].pc = "loaded"
    /\ ~HoldsRecord(runs, calls[i].runId)
    /\ calls' = RemoveAt(calls, i)
    /\ UNCHANGED <<runs, loaded, sweeper, intervals, file, persisted, reads, rnow, started, rbook,
                   rproc, held>>

\* deleteRun(runId), up to `await this.load()`.
DeleteStart(runId) ==
    /\ StartCall(Call("deleteRun", "loaded", runId, NoRecord, NoUpdates))
    /\ touched' = touched \cup {runId}
    /\ UNCHANGED <<rnow, regCalls, regDone, regRecord, rproc>>

\* deleteRun on a runId of the map: this.runs.delete(runId) and save().
DeleteApply(i, outcome) ==
    /\ i \in DOMAIN calls
    /\ calls[i].op = "deleteRun" /\ calls[i].pc = "loaded"
    /\ runs[calls[i].runId] # <<>>
    /\ RCommit(Save([ Registry EXCEPT !.runs[calls[i].runId] = <<>> ], outcome))
    /\ held' = HeldReplaced(held, {calls[i].runId})
    /\ calls' = Resumed(calls, i, outcome)
    /\ UNCHANGED <<rnow, started, rbook, rproc>>

\* deleteRun on a runId the map does not have: nothing deleted, nothing saved.
DeleteUnknown(i) ==
    /\ i \in DOMAIN calls
    /\ calls[i].op = "deleteRun" /\ calls[i].pc = "loaded"
    /\ runs[calls[i].runId] = <<>>
    /\ calls' = RemoveAt(calls, i)
    /\ UNCHANGED <<runs, loaded, sweeper, intervals, file, persisted, reads, rnow, started, rbook,
                   rproc, held>>

\* updateRun or deleteRun: the call completes after `await this.save()`.
MutationFinish(i) ==
    /\ i \in DOMAIN calls
    /\ calls[i].op \in {"updateRun", "deleteRun"} /\ calls[i].pc = "saved"
    /\ calls' = RemoveAt(calls, i)
    /\ UNCHANGED <<runs, loaded, sweeper, intervals, file, persisted, reads, rnow, started, rbook,
                   rproc, held>>

\* A direct call of load().
LoadCall ==
    /\ ~SweepInFlight
    /\ started < MaxCalls
    /\ started' = started + 1
    /\ RCommit(Load(Registry))
    /\ held' = IF loaded THEN held ELSE HeldReplaced(held, RunIds)
    /\ UNCHANGED <<calls, rnow, rbook, rproc>>

\* The interval timer fires: `void this.sweep()`, up to `await this.load()`.
\* Every await of the registry is on a promise that is already settled, so
\* the calls started before the timer callback have run to their ends by
\* the time it runs.
SweepTick ==
    /\ intervals > 0
    /\ calls = <<>>
    /\ Begin(Call("sweep", "loaded", "", NoRecord, NoUpdates))
    /\ UNCHANGED <<rnow, started, rbook, rproc>>

\* An end of sweep() that leaves the timer armed.
SweepEndArmed(R) == R

\* The end of sweep(): `if (this.runs.size === 0) this.stopSweeper()`.
SweepEnd(R) == IF RunsEmpty(R) THEN StopSweeper(R) ELSE R

\* sweep(): the eviction loop; with something evicted, save() up to its await.
SweepEvict(i, outcome) ==
    /\ i \in DOMAIN calls
    /\ calls[i].op = "sweep" /\ calls[i].pc = "loaded"
    /\ ~HasNull(runs)
    /\ Evicted(Registry, rnow) # {}
    /\ RCommit(Save([ Registry EXCEPT !.runs = [ id \in RunIds |->
                        IF id \in Evicted(Registry, rnow) THEN <<>> ELSE @[id] ] ],
                    outcome))
    /\ held' = HeldReplaced(held, Evicted(Registry, rnow))
    /\ calls' = Resumed(calls, i, outcome)
    /\ touched' = touched \cup Evicted(Registry, rnow)
    /\ UNCHANGED <<rnow, started, regCalls, regDone, regRecord, rproc>>

\* sweep() with nothing to evict: no save, the call runs to its end.
SweepNothing(i) ==
    /\ i \in DOMAIN calls
    /\ calls[i].op = "sweep" /\ calls[i].pc = "loaded"
    /\ ~HasNull(runs)
    /\ Evicted(Registry, rnow) = {}
    /\ RCommit(SweepEnd(Registry))
    /\ calls' = RemoveAt(calls, i)
    /\ UNCHANGED <<rnow, started, rbook, rproc, held>>

\* sweep() over a map with a null value: the value loaded from the file is
\* the first the loop visits, `entry.archiveAtMs` throws a TypeError, and the
\* promise of sweep(), which `void` discards, rejects.
SweepThrows(i) ==
    /\ i \in DOMAIN calls
    /\ calls[i].op = "sweep" /\ calls[i].pc = "loaded"
    /\ HasNull(runs)
    /\ rejected' = TRUE
    /\ calls' = RemoveAt(calls, i)
    /\ UNCHANGED <<runs, loaded, sweeper, intervals, file, persisted, reads, rnow, started, rbook,
                   startFile, restarts, held>>

\* sweep() after `await this.save()`.
SweepFinish(i) ==
    /\ i \in DOMAIN calls
    /\ calls[i].op = "sweep" /\ calls[i].pc = "saved"
    /\ RCommit(SweepEnd(Registry))
    /\ calls' = RemoveAt(calls, i)
    /\ UNCHANGED <<rnow, started, rbook, rproc, held>>

\* A caller starts the sweeper.
StartSweeperCall ==
    /\ ~SweepInFlight
    /\ started < MaxCalls
    /\ started' = started + 1
    /\ RCommit(StartSweeper(Registry))
    /\ UNCHANGED <<calls, rnow, rbook, rproc, held>>

\* A caller stops the sweeper.
StopSweeperCall ==
    /\ ~SweepInFlight
    /\ sweeper
    /\ RCommit(StopSweeper(Registry))
    /\ UNCHANGED <<calls, rnow, started, rbook, rproc, held>>

\* The clock advances.
RTick ==
    /\ rnow < MaxNow
    /\ rnow' = rnow + 1
    /\ UNCHANGED <<runs, loaded, sweeper, intervals, file, persisted, reads, calls, started, rbook,
                   rproc, held>>

\* The process ends and a new one constructs its registry over the same file:
\* `new SubagentRegistry()`.  The calls in flight and the references callers
\* held end with the old process.
Restart ==
    /\ restarts < MaxRestarts
    /\ restarts' = restarts + 1
    /\ runs' = EmptyRuns
    /\ loaded' = FALSE
    /\ sweeper' = FALSE
    /\ intervals' = 0
    /\ calls' = <<>>
    /\ regCalls' = [ id \in RunIds |-> 0 ]
    /\ regDone' = [ id \in RunIds |-> 0 ]
    /\ regRecord' = [ id \in RunIds |-> NoRecord ]
    /\ touched' = {}
    /\ rejected' = FALSE
    /\ startFile' = file
    /\ reads' = 0
    /\ held' = NoHandle
    /\ UNCHANGED <<file, persisted, rnow, started>>

\* A caller keeps what getRun(runId) returned: this.runs.get(runId), the
\* object of the map.
GetRunCall(runId) ==
    /\ ~SweepInFlight
    /\ held = NoHandle
    /\ HoldsRecord(runs, runId)
    /\ held' = [ from |-> "getRun", alias |-> runId, val |-> GetRun(runId)[1],
                 snap |-> GetRun(runId)[1], leaked |-> FALSE ]
    /\ UNCHANGED <<runs, loaded, sweeper, intervals, file, persisted, reads, calls, rnow, started,
                   rbook, rproc>>

\* A caller lists the runs of a record's requester and keeps that record
\* from what listRunsForRequester returned: filter makes a new array of the
\* same objects.
ListCall(runId) ==
    /\ ~SweepInFlight
    /\ held = NoHandle
    /\ HoldsRecord(runs, runId)
    /\ runs[runId][1] \in ListRunsForRequester(runs[runId][1].requesterSessionKey)
    /\ held' = [ from |-> "list", alias |-> runId, val |-> runs[runId][1],
                 snap |-> runs[runId][1], leaked |-> FALSE ]
    /\ UNCHANGED <<runs, loaded, sweeper, intervals, file, persisted, reads, calls, rnow, started,
                   rbook, rproc>>

\* The session keys callers list the runs of.
LookupKeys == { <<"o">>, <<"m">>, <<" ">> }

\* A caller calls getRun(runId) and listRunsForRequester(key) and keeps what
\* they returned.  Neither method awaits, calls load() or assigns anything.
LookupCall(runId, key) ==
    /\ ~SweepInFlight
    /\ held = NoHandle
    /\ held' = [ from |-> "lookup", alias |-> "", val |-> NoRecord, snap |-> NoRecord,
                 leaked |-> FALSE, got |-> GetRun(runId),
                 listed |-> ListRunsForRequester(key) ]
    /\ UNCHANGED <<runs, loaded, sweeper, intervals, file, persisted, reads, calls, rnow, started,
                   rbook, rproc>>

\* A caller assigns to a property of the object it holds.  While the map
\* holds the same object, the map's record has changed with it; nothing is
\* saved.
CallerModifies ==
    /\ ~SweepInFlight
    /\ held # NoHandle
    /\ held.val.task # "mine"
    /\ held' = [ held EXCEPT !.val.task = "mine", !.snap.task = "mine",
                             !.leaked = @ \/ held.alias # "" ]
    /\ runs' = IF held.alias # ""
                 THEN [ runs EXCEPT ![held.alias] = << [ @[1] EXCEPT !.task = "mine" ] >> ]
                 ELSE runs
    /\ UNCHANGED <<loaded, sweeper, intervals, file, persisted, reads, calls, rnow, started, rbook,
                   rproc>>

\* The steps of the registry with the given outcomes of writes; `keeps` says
\* whether callers' references to the objects they pass are followed.
RNextFor(outcomes, keeps) ==
    \/ \E record \in RecordChoices : RegisterStart(record) /\ UNCHANGED notR
    \/ \E i \in DOMAIN calls, outcome \in outcomes, keep \in keeps :
          RegisterSet(i, outcome, keep) /\ UNCHANGED notR
    \/ \E i \in DOMAIN calls : RegisterFinish(i) /\ UNCHANGED notR
    \/ \E runId \in RunIds, updates \in UpdateChoices :
          UpdateStart(runId, updates) /\ UNCHANGED notR
    \/ \E i \in DOMAIN calls, outcome \in outcomes :
          UpdateApply(i, outcome) /\ UNCHANGED notR
    \/ \E i \in DOMAIN calls : UpdateUnknown(i) /\ UNCHANGED notR
    \/ \E runId \in RunIds : DeleteStart(runId) /\ UNCHANGED notR
    \/ \E i \in DOMAIN calls, outcome \in outcomes :
          DeleteApply(i, outcome) /\ UNCHANGED notR
    \/ \E i \in DOMAIN calls : DeleteUnknown(i) /\ UNCHANGED notR
    \/ \E i \in DOMAIN calls : MutationFinish(i) /\ UNCHANGED notR
    \/ LoadCall /\ UNCHANGED notR
    \/ SweepTick /\ UNCHANGED notR
    \/ \E i \in DOMAIN calls, outcome \in outcomes :
          SweepEvict(i, outcome) /\ UNCHANGED notR
    \/ \E i \in DOMAIN calls : SweepNothing(i) /\ UNCHANGED notR
    \/ \E i \in DOMAIN calls : SweepThrows(i) /\ UNCHANGED notR
    \/ \E i \in DOMAIN calls : SweepFinish(i) /\ UNCHANGED notR
    \/ StopSweeperCall /\ UNCHANGED notR
    \/ RTick /\ UNCHANGED notR

RNext == RNextFor(WriteOutcomes, {FALSE})

RegistryInit == QInit /\ RInit /\ AIdle /\ XIdle

RegistrySpec == RegistryInit /\ [][RNext]_vars

\* The registry over a file that load() reads without an error, with every
\* write succeeding.
WritesOkInit ==
    QInit /\ RInitWith({ f \in InitFiles : f.state # "corrupt" }) /\ AIdle /\ XIdle

WritesOkNext == RNextFor({"ok"}, {FALSE})

WritesOkSpec == WritesOkInit /\ [][WritesOkNext]_vars

\* The registry with process restarts: the calls that write the file on a
\* caller's behalf, load(), and the restart.
RestartNext ==
    \/ \E record \in RecordChoices : RegisterStart(record) /\ UNCHANGED notR
    \/ \E i \in DOMAIN calls, outcome \in WriteOutcomes :
          RegisterSet(i, outcome, FALSE) /\ UNCHANGED notR
    \/ \E i \in DOMAIN calls : RegisterFinish(i) /\ UNCHANGED notR
    \/ \E runId \in RunIds, updates \in UpdateChoices :
          UpdateStart(runId, updates) /\ UNCHANGED notR
    \/ \E i \in DOMAIN calls, outcome \in WriteOutcomes :
          UpdateApply(i, outcome) /\ UNCHANGED notR
    \/ \E i \in DOMAIN calls : UpdateUnknown(i) /\ UNCHANGED notR
    \/ \E runId \in RunIds : DeleteStart(runId) /\ UNCHANGED notR
    \/ \E i \in DOMAIN calls, outcome \in WriteOutcomes :
          DeleteApply(i, outcome) /\ UNCHANGED notR
    \/ \E i \in DOMAIN calls : DeleteUnknown(i) /\ UNCHANGED notR
    \/ \E i \in DOMAIN calls : MutationFinish(i) /\ UNCHANGED notR
    \/ LoadCall /\ UNCHANGED notR
    \/ Restart /\ UNCHANGED notR

RestartSpec == RegistryInit /\ [][RestartNext]_vars

\* The registry with a caller that keeps a record object it passed or was
\* handed, and assigns to it.
AliasInit ==
    /\ QInit /\ AIdle /\ XIdle
    /\ RInitWith({ f \in InitFiles : f.state # "corrupt" /\ ~HasNull(FileView(f)) })

AliasNext ==
    \/ \E record \in RecordChoices : RegisterStart(record) /\ UNCHANGED notR
    \/ \E i \in DOMAIN calls, outcome \in WriteOutcomes, keep \in BOOLEAN :
          RegisterSet(i, outcome, keep) /\ UNCHANGED notR
    \/ \E i \in DOMAIN calls : RegisterFinish(i) /\ UNCHANGED notR
    \/ \E runId \in RunIds, updates \in UpdateChoices :
          UpdateStart(runId, updates) /\ UNCHANGED notR
    \/ \E i \in DOMAIN calls, outcome \in WriteOutcomes :
          UpdateApply(i, outcome) /\ UNCHANGED notR
    \/ \E i \in DOMAIN calls : UpdateUnknown(i) /\ UNCHANGED notR
    \/ \E i \in DOMAIN calls : MutationFinish(i) /\ UNCHANGED notR
    \/ \E runId \in RunIds : GetRunCall(runId) /\ UNCHANGED notR
    \/ \E runId \in RunIds : ListCall(runId) /\ UNCHANGED notR
    \/ CallerModifies /\ UNCHANGED notR

AliasSpec == AliasInit /\ [][AliasNext]_vars

\* A suspended registry call resumes: the promise it awaits is settled.
Continue ==
    \/ \E i \in DOMAIN calls, outcome \in WriteOutcomes : RegisterSet(i, outcome, FALSE)
    \/ \E i \in DOMAIN calls : RegisterFinish(i)
    \/ \E i \in DOMAIN calls, outcome \in WriteOutcomes : UpdateApply(i, outcome)
    \/ \E i \in DOMAIN calls : UpdateUnknown(i)
    \/ \E i \in DOMAIN calls, outcome \in WriteOutcomes : DeleteApply(i, outcome)
    \/ \E i \in DOMAIN calls : DeleteUnknown(i)
    \/ \E i \in DOMAIN calls : MutationFinish(i)
    \/ \E i \in DOMAIN calls, outcome \in WriteOutcomes : SweepEvict(i, outcome)
    \/ \E i \in DOMAIN calls : SweepNothing(i)
    \/ \E i \in DOMAIN calls : SweepThrows(i)
    \/ \E i \in DOMAIN calls : SweepFinish(i)

\* The event loop runs the continuation of every settled await, and the
\* interval timer, while armed, keeps firing.
RFairness ==
    /\ WF_vars(Continue /\ UNCHANGED notR)
    /\ WF_vars(SweepTick /\ UNCHANGED notR)

\* The registry as the sweeper sees it: the calls that arm or disarm the
\* timer or add to or remove from the map.  Whether a write succeeds bears
\* on neither, so the writes succeed.
SweeperNext ==
    \/ \E record \in RecordChoices : RegisterStart(record) /\ UNCHANGED notR
    \/ \E i \in DOMAIN calls, outcome \in {"ok"} :
          RegisterSet(i, outcome, FALSE) /\ UNCHANGED notR
    \/ \E i \in DOMAIN calls : RegisterFinish(i) /\ UNCHANGED notR
    \/ \E runId \in RunIds : DeleteStart(runId) /\ UNCHANGED notR
    \/ \E i \in DOMAIN calls, outcome \in {"ok"} :
          DeleteApply(i, outcome) /\ UNCHANGED notR
    \/ \E i \in DOMAIN calls : DeleteUnknown(i) /\ UNCHANGED notR
    \/ \E i \in DOMAIN calls : MutationFinish(i) /\ UNCHANGED notR
    \/ LoadCall /\ UNCHANGED notR
    \/ SweepTick /\ UNCHANGED notR
    \/ \E i \in DOMAIN calls, outcome \in {"ok"} :
          SweepEvict(i, outcome) /\ UNCHANGED notR
    \/ \E i \in DOMAIN calls : SweepNothing(i) /\ UNCHANGED notR
    \/ \E i \in DOMAIN calls : SweepThrows(i) /\ UNCHANGED notR
    \/ \E i \in DOMAIN calls : SweepFinish(i) /\ UNCHANGED notR
    \/ StopSweeperCall /\ UNCHANGED notR
    \/ RTick /\ UNCHANGED notR

SweeperSpec == RegistryInit /\ [][SweeperNext]_vars /\ RFairness

\* The registry with callers that never stop the sweeper: they register,
\* update and delete runs and load, the clock advances and the timer fires.
UnstoppedNext ==
    \/ \E record \in RecordChoices : RegisterStart(record) /\ UNCHANGED notR
    \/ \E i \in DOMAIN calls : RegisterSet(i, "ok", FALSE) /\ UNCHANGED notR
    \/ \E i \in DOMAIN calls : RegisterFinish(i) /\ UNCHANGED notR
    \/ \E runId \in RunIds, updates \in UpdateChoices :
          UpdateStart(runId, updates) /\ UNCHANGED notR
    \/ \E i \in DOMAIN calls : UpdateApply(i, "ok") /\ UNCHANGED notR
    \/ \E i \in DOMAIN calls : UpdateUnknown(i) /\ UNCHANGED notR
    \/ \E runId \in RunIds : DeleteStart(runId) /\ UNCHANGED notR
    \/ \E i \in DOMAIN calls : DeleteApply(i, "ok") /\ UNCHANGED notR
    \/ \E i \in DOMAIN calls : DeleteUnknown(i) /\ UNCHANGED notR
    \/ \E i \in DOMAIN calls : MutationFinish(i) /\ UNCHANGED notR
    \/ LoadCall /\ UNCHANGED notR
    \/ SweepTick /\ UNCHANGED notR
    \/ \E i \in DOMAIN calls : SweepEvict(i, "ok") /\ UNCHANGED notR
    \/ \E i \in DOMAIN calls : SweepNothing(i) /\ UNCHANGED notR
    \/ \E i \in DOMAIN calls : SweepThrows(i) /\ UNCHANGED notR
    \/ \E i \in DOMAIN calls : SweepFinish(i) /\ UNCHANGED notR
    \/ RTick /\ UNCHANGED notR

UnstoppedSpec == RegistryInit /\ [][UnstoppedNext]_vars /\ RFairness

\* The same with callers that also start the sweeper themselves.
TimerNext ==
    \/ SweeperNext
    \/ StartSweeperCall /\ UNCHANGED notR

TimerSpec == RegistryInit /\ [][TimerNext]_vars

\* ============================================================= delegation

\* The runId each SubAgentInvocation got from uuidv4() in its constructor.
RunIdOf(e) == IF e = "e1" THEN "r1" ELSE "r2"

\* How the delegated invocation's execute() settles.
DelegateOutcomes == {"returns", "throws"}

\* The message of the error a delegated invocation throws.
ErrorMessage == "boom"

\* The record execute() passes to registerRun: requesterSessionKey 'main',
\* task the agent's name, createdAt and startedAt Date.now().
ExecRecord(e, now) ==
    [ runId |-> RunIdOf(e), requesterSessionKey |-> <<"m">>, task |-> "t",
      createdAt |-> now, startedAt |-> Some(now), endedAt |-> None, outcome |-> None,
      archiveAtMs |-> None ]

\* Updates that record every completion as a success.
ExecUpdatesAlwaysOk(how, now) ==
    [ f \in {"endedAt", "outcome"} |->
        IF f = "endedAt" THEN Some(now) ELSE Some([ status |-> "ok", error |-> None ]) ]

\* The updates execute() passes to updateRun when the delegated invocation
\* has returned, or has thrown.
ExecUpdates(how, now) ==
    [ f \in {"endedAt", "outcome"} |->
        IF f = "endedAt" THEN Some(now)
        ELSE IF how = "returns"
               THEN Some([ status |-> "ok", error |-> None ])
               ELSE Some([ status |-> "error", error |-> Some(ErrorMessage) ]) ]

\* Whether a registry call for the invocation's run is suspended.
ExecAwaits(e, op) ==
    \E i \in DOMAIN calls : calls[i].op = op /\ calls[i].runId = RunIdOf(e)

\* execute() with arguments the input schema rejects: it throws before it
\* registers anything.
ExecuteInvalid(e) ==
    /\ exec[e].pc = "created"
    /\ exec' = [ exec EXCEPT ![e] = [ @ EXCEPT !.pc = "settled", !.result = "invalid" ] ]
    /\ UNCHANGED <<rvars, prompts>>

\* execute() with valid arguments, up to the `await this.load()` of
\* registerRun.
ExecuteRegister(e) ==
    /\ exec[e].pc = "created"
    /\ ~SweepInFlight
    /\ Begin(Call("registerRun", "loaded", RunIdOf(e), ExecRecord(e, rnow), NoUpdates))
    /\ regCalls' = [ regCalls EXCEPT ![RunIdOf(e)] = @ + 1 ]
    /\ regRecord' = [ regRecord EXCEPT ![RunIdOf(e)] = ExecRecord(e, rnow) ]
    /\ exec' = [ exec EXCEPT ![e].pc = "registering" ]
    /\ UNCHANGED <<rnow, started, regDone, touched, rproc, prompts>>

\* registerRun has completed: buildSubInvocation and the delegated
\* invocation's execute() starts.
ExecuteDelegate(e) ==
    /\ exec[e].pc = "registering"
    /\ ~ExecAwaits(e, "registerRun")
    /\ exec' = [ exec EXCEPT ![e].pc = "delegated" ]
    /\ UNCHANGED <<rvars, prompts>>

\* The delegated invocation returns or throws: execute() calls updateRun, up
\* to its `await this.load()`.
ExecuteRecord(e, how) ==
    /\ exec[e].pc = "delegated"
    /\ ~SweepInFlight
    /\ Begin(Call("updateRun", "loaded", RunIdOf(e), NoRecord, ExecUpdates(how, rnow)))
    /\ touched' = touched \cup {RunIdOf(e)}
    /\ exec' = [ exec EXCEPT ![e] = [ @ EXCEPT !.pc = "updating", !.delegated = how ] ]
    /\ UNCHANGED <<rnow, started, regCalls, regDone, regRecord, rproc, prompts>>

\* updateRun has completed: execute() returns the delegated result or
\* rethrows the delegated error.
ExecuteSettle(e) ==
    /\ exec[e].pc = "updating"
    /\ ~ExecAwaits(e, "updateRun")
    /\ exec' = [ exec EXCEPT ![e] =
                   [ @ EXCEPT !.pc = "settled",
                              !.result = IF exec[e].delegated = "returns"
                                           THEN "returned" ELSE "rethrown" ] ]
    /\ UNCHANGED <<rvars, prompts>>

\* ---------------------------------------------------------- announce flow

\* The milliseconds taken for seconds.
FormatDurationShortMillis(valueMs) ==
    IF valueMs = None \/ Val(valueMs) <= 0 THEN None
    ELSE LET totalSeconds == Val(valueMs)
             hours == totalSeconds \div 3600
             minutes == (totalSeconds % 3600) \div 60
             seconds == totalSeconds % 60
         IN  Some(IF hours > 0 THEN ToString(hours) \o "h" \o ToString(minutes) \o "m"
                  ELSE IF minutes > 0
                         THEN ToString(minutes) \o "m" \o ToString(seconds) \o "s"
                         ELSE ToString(seconds) \o "s")

\* formatDurationShort(valueMs): undefined for no value, 0 or a negative
\* value; else the seconds rounded to the nearest, as h and m, m and s, or s.
FormatDurationShort(valueMs) ==
    IF valueMs = None \/ Val(valueMs) <= 0 THEN None
    ELSE LET totalSeconds == (Val(valueMs) + 500) \div 1000
             hours == totalSeconds \div 3600
             minutes == (totalSeconds % 3600) \div 60
             seconds == totalSeconds % 60
         IN  Some(IF hours > 0 THEN ToString(hours) \o "h" \o ToString(minutes) \o "m"
                  ELSE IF minutes > 0
                         THEN ToString(minutes) \o "m" \o ToString(seconds) \o "s"
                         ELSE ToString(seconds) \o "s")

\* buildSubagentStatsLine(params), as the parts the line is joined from.
BuildSubagentStatsLine(params) ==
    LET runtimeMs == IF IsSome(params.startedAt) /\ IsSome(params.endedAt)
                       THEN Some(Max(0, Val(params.endedAt) - Val(params.startedAt)))
                       ELSE None
        runtime == FormatDurationShort(runtimeMs)
    IN  << "Stats:", "runtime", IF runtime = None THEN "n/a" ELSE Val(runtime),
           "sessionKey", params.sessionKey >>

\* The status label, as its words.
StatusLabel(outcome) ==
    CASE outcome.status = "ok" -> <<"completed", "successfully">>
      [] outcome.status = "timeout" -> <<"timed", "out">>
      [] outcome.status = "error" ->
            <<"failed:", IF outcome.error = None THEN "unknown error" ELSE Val(outcome.error)>>
      [] OTHER -> <<"finished", "with", "unknown", "status">>

\* params.label || params.task || 'background task'
TaskLabel(params) ==
    IF params.label # None /\ Val(params.label) # "" THEN Val(params.label)
    ELSE IF params.task # "" THEN params.task ELSE "background task"

\* The prompt runSubagentAnnounceFlow builds, as the parts it is joined from.
TriggerMessage(params) ==
    LET outcome == IF params.outcome = None
                     THEN [ status |-> "unknown", error |-> None ]
                     ELSE Val(params.outcome)
    IN  <<"A background task", TaskLabel(params), "just">> \o StatusLabel(outcome)
        \o <<"Findings:", "(no output)">>
        \o BuildSubagentStatsLine([ sessionKey |-> params.childSessionKey,
                                    startedAt |-> params.startedAt,
                                    endedAt |-> params.endedAt ])

\* key: params.requesterSessionKey || 'global'
AnnounceKey(requesterSessionKey) ==
    IF requesterSessionKey = "" THEN "global" ELSE requesterSessionKey

\* settings: { mode: 'auto' }
AnnounceSettings ==
    [ mode |-> "auto", debounceMs |-> None, cap |-> None, dropPolicy |-> "undefined" ]

\* send: sendAnnounce
SendAnnounce == "sendA"

\* The run records completion is announced for, in the fields the announce
\* flow's parameters name, as registered: with and without startedAt.
AnnouncedRuns ==
    { [ runId |-> "r1", childSessionKey |-> "subagent:r1", requesterSessionKey |-> "main",
        task |-> "t", label |-> None, createdAt |-> 1000, startedAt |-> started_,
        endedAt |-> None, outcome |-> None ] :
      started_ \in {None, Some(1000)} }

\* The updates that mark a run completed.
CompletionChoices ==
    { [ f \in {"endedAt", "outcome"} |->
          IF f = "endedAt" THEN Some(c[1]) ELSE Some([ status |-> c[2], error |-> c[3] ]) ] :
      c \in { <<2000, "ok", None>>, <<1499, "ok", None>>, <<63000, "timeout", None>>,
              <<3661000, "error", Some(ErrorMessage)>> } }

\* The records after updateRun has merged the completion into them.
CompletedRuns ==
    { Assigned(run, updates) : run \in AnnouncedRuns, updates \in CompletionChoices }

\* The parameters of runSubagentAnnounceFlow for a run record: each parameter
\* is the record's field of the same name, childRunId is its runId.
AnnounceParams(run) ==
    [ childSessionKey |-> run.childSessionKey, childRunId |-> run.runId,
      requesterSessionKey |-> run.requesterSessionKey, task |-> run.task,
      label |-> run.label, startedAt |-> run.startedAt, endedAt |-> run.endedAt,
      outcome |-> run.outcome ]

\* requesterOrigin ?? { to: 'main' }, for a caller that passes no origin.
AnnounceOrigin ==
    Some([ channel |-> None, to |-> Some(<<"m", "a", "i", "n">>), accountId |-> None,
           threadId |-> None ])

\* runSubagentAnnounceFlow(params) for a run record: builds the prompt and
\* enqueues the item under the requester's key.  sendAnnounce is an async
\* function, so a call of it returns a promise and never throws.
RunSubagentAnnounceFlow(run) ==
    LET params == AnnounceParams(run)
        key == AnnounceKey(params.requesterSessionKey)
    IN  /\ key \in Keys
        /\ EnqueueFrom(key, AnnounceOrigin, AnnounceSettings, SendAnnounce, "pending",
                       MaxAnnounces)
        /\ prompts' = [ prompts EXCEPT ![key] =
                          Append(@, [ from |-> run, prompt |-> TriggerMessage(params) ]) ]
        /\ UNCHANGED exec

\* =========================================================== specifications

\* The steps of the announce queue with the keys K in use and at most
\* `limit` enqueueAnnounce calls.
QNextFor(K, limit) ==
    \/ \E key \in K, settings \in SettingsChoices, send \in SendFns,
          outcome \in SendOutcomes :
          Enqueue(key, settings, send, outcome, limit) /\ UNCHANGED notQ
    \/ \E i \in DOMAIN loops, outcome \in SendOutcomes :
          Wake(i, outcome) /\ UNCHANGED notQ
    \/ \E i \in DOMAIN loops, outcome \in SendOutcomes :
          SendResolve(i, outcome) /\ UNCHANGED notQ
    \/ \E i \in DOMAIN loops : SendReject(i) /\ UNCHANGED notQ
    \/ \E key \in Keys, outcome \in SendOutcomes :
          TimerFire(key, outcome) /\ UNCHANGED notQ
    \/ \E d \in Deltas : AdvanceTime(d) /\ UNCHANGED notQ

Init == QInit /\ RIdle /\ AIdle /\ XIdle

\* One key in use.
Next == QNextFor({"main"}, MaxEnq)

Spec == Init /\ [][Next]_vars

\* Both keys in use.
TwoKeyNext == QNextFor(Keys, MaxEnqTwoKeys)

TwoKeySpec == Init /\ [][TwoKeyNext]_vars

\* The event loop runs every callback that is due, the clock advances, and
\* every send settles.
QFairness ==
    /\ WF_vars((\E i \in DOMAIN loops, outcome \in SendOutcomes : Wake(i, outcome))
                  /\ UNCHANGED notQ)
    /\ WF_vars((\E key \in Keys, outcome \in SendOutcomes : TimerFire(key, outcome))
                  /\ UNCHANGED notQ)
    /\ WF_vars((\E d \in Deltas : AdvanceTime(d)) /\ UNCHANGED notQ)
    /\ WF_vars((\/ \E i \in DOMAIN loops, outcome \in SendOutcomes : SendResolve(i, outcome)
                \/ \E i \in DOMAIN loops : SendReject(i))
                  /\ UNCHANGED notQ)

FairSpec == Spec /\ QFairness

\* Callers enqueue items that carry an origin.
OriginNext ==
    \E origin \in OriginChoices :
        EnqueueFrom("main", origin, AnnounceSettings, SendAnnounce, "pending", MaxOrigins)
          /\ UNCHANGED notQ

OriginSpec == Init /\ [][OriginNext]_vars

\* ----------------------------------------------- ask-user specification

\* The ask-user invocations, the consumer that answers them, and the caller
\* that cancels them.  The second invocation is the unrelated request that
\* shares the wire: it is published and answered, not cancelled.
AskNext ==
    \/ \E i \in Invs, outcome \in PublishOutcomes, dispatched \in BOOLEAN,
          reply \in ResponseChoices \cup {NoReply}, append \in AppendOutcomes :
          /\ i = "i2" => (outcome = "resolves" /\ reply = NoReply)
          /\ Execute(i, outcome, dispatched, reply, append) /\ UNCHANGED notA
    \/ \E i \in Invs : ExecuteAborted(i) /\ UNCHANGED notA
    \/ \E i \in Invs : PublishSettles(i) /\ UNCHANGED notA
    \/ \E response \in ResponseChoices, append \in AppendOutcomes :
          Respond(response, append) /\ UNCHANGED notA
    \/ \E i \in {"i1"} : Abort(i) /\ UNCHANGED notA
    \/ \E h \in {"ui"} : SubscribeOther(h) /\ UNCHANGED notA
    \/ \E h \in {"ui"} : UnsubscribeOther(h) /\ UNCHANGED notA

AskInit == QInit /\ RIdle /\ AInit /\ XIdle

AskSpec == AskInit /\ [][AskNext]_vars

\* The bus with its subscribers coming and going: one invocation publishes a
\* request, a consumer publishes responses.
BusNext ==
    \/ \E i \in {"i1"} : Execute(i, "resolves", TRUE, NoReply, "ok") /\ UNCHANGED notA
    \/ \E response \in ResponseChoices : Respond(response, "ok") /\ UNCHANGED notA
    \/ \E h \in Handlers : SubscribeOther(h) /\ UNCHANGED notA
    \/ \E h \in Handlers : UnsubscribeOther(h) /\ UNCHANGED notA

BusSpec == AskInit /\ [][BusNext]_vars


\* -------------------------------------------- delegation specifications

\* Two SubAgentInvocations execute over one registry whose file holds none of
\* their runs; the clock advances.
ExecNext ==
    \/ \E e \in Execs : ExecuteInvalid(e) /\ UNCHANGED notX /\ UNCHANGED qvars
    \/ \E e \in Execs : ExecuteRegister(e) /\ UNCHANGED notX /\ UNCHANGED qvars
    \/ \E i \in DOMAIN calls, outcome \in WriteOutcomes :
          RegisterSet(i, outcome, FALSE) /\ UNCHANGED notR
    \/ \E i \in DOMAIN calls : RegisterFinish(i) /\ UNCHANGED notR
    \/ \E e \in Execs : ExecuteDelegate(e) /\ UNCHANGED notX /\ UNCHANGED qvars
    \/ \E e \in Execs, how \in DelegateOutcomes :
          ExecuteRecord(e, how) /\ UNCHANGED notX /\ UNCHANGED qvars
    \/ \E i \in DOMAIN calls, outcome \in WriteOutcomes :
          UpdateApply(i, outcome) /\ UNCHANGED notR
    \/ \E i \in DOMAIN calls : MutationFinish(i) /\ UNCHANGED notR
    \/ \E e \in Execs : ExecuteSettle(e) /\ UNCHANGED notX /\ UNCHANGED qvars
    \/ RTick /\ UNCHANGED notR

ExecInit ==
    QInit /\ RInitWith({ f \in InitFiles : f.data = EmptyRuns }) /\ AIdle /\ XIdle

ExecSpec == ExecInit /\ [][ExecNext]_vars

\* The registry with callers that also look runs up.
LookupNext ==
    \/ RNext
    \/ \E runId \in RunIds, key \in LookupKeys : LookupCall(runId, key) /\ UNCHANGED notR

LookupSpec == RegistryInit /\ [][LookupNext]_vars

\* The registry over an empty file with callers that register runs and
\* update them, the runId among the fields they update.
RekeyNext ==
    \/ \E record \in RecordChoices : RegisterStart(record) /\ UNCHANGED notR
    \/ \E i \in DOMAIN calls : RegisterSet(i, "ok", FALSE) /\ UNCHANGED notR
    \/ \E i \in DOMAIN calls : RegisterFinish(i) /\ UNCHANGED notR
    \/ \E runId \in RunIds, updates \in UpdateChoices \cup RekeyChoices :
          UpdateStart(runId, updates) /\ UNCHANGED notR
    \/ \E i \in DOMAIN calls : UpdateApply(i, "ok") /\ UNCHANGED notR
    \/ \E i \in DOMAIN calls : UpdateUnknown(i) /\ UNCHANGED notR
    \/ \E i \in DOMAIN calls : MutationFinish(i) /\ UNCHANGED notR

RekeySpec == ExecInit /\ [][RekeyNext]_vars

\* The announce flow runs for completed runs and the queue drains.
AnnounceNext ==
    \/ \E run \in CompletedRuns : RunSubagentAnnounceFlow(run) /\ UNCHANGED <<rvars, avars>>
    \/ \E i \in DOMAIN loops : Wake(i, "pending") /\ UNCHANGED notQ
    \/ \E i \in DOMAIN loops : SendResolve(i, "pending") /\ UNCHANGED notQ
    \/ \E i \in DOMAIN loops : SendReject(i) /\ UNCHANGED notQ
    \/ \E key \in Keys : TimerFire(key, "pending") /\ UNCHANGED notQ
    \/ \E d \in Deltas : AdvanceTime(d) /\ UNCHANGED notQ

AnnounceSpec == Init /\ [][AnnounceNext]_vars

\* ------------------------------------------------------------------ claims

\* The items of `key` that wait in its queue state.
Pending(key) ==
    IF ANNOUNCE_QUEUES[key] = 0 THEN <<>> ELSE heap[ANNOUNCE_QUEUES[key]].items

\* The suspended drain loops started for `key`.
LoopsOf(key) == { i \in DOMAIN loops : loops[i].key = key }

\* <<1, ..., n>>: the first n items of a key, in the order they were enqueued.
FirstItems(n) == [ i \in 1..n |-> i ]

Times(seq, x) == Cardinality({ i \in DOMAIN seq : seq[i] = x })

\* C1: for every key the calls of send are, in order, the items enqueued for
\* the key, each passed once: the items sent so far followed by the items
\* still waiting are exactly the items enqueued, in enqueue order.
C1_StrictFifoOnce ==
    \A k \in Keys : sendLog[k] \o Pending(k) = FirstItems(enqCount[k])

\* C1 witness: three items enqueued for one key closer together than a
\* positive debounceMs have been sent as 1, 2, 3.
C1_BurstOfThreeSent ==
    \E k \in Keys : /\ burst[k] >= 3
                    /\ sendLog[k] = <<1, 2, 3>>
                    /\ lastSend.debounceMs > 0

\* C2: for each key at most one drain loop is active, it runs on the state
\* the Map holds for the key, and at most one send of the key is in flight.
C2_SingleDrainLoop ==
    \A k \in Keys :
        /\ Cardinality(LoopsOf(k)) <= 1
        /\ \A i \in LoopsOf(k) : loops[i].q = ANNOUNCE_QUEUES[k]
        /\ Cardinality({ i \in LoopsOf(k) : loops[i].pc = "send" }) <= 1

\* C2 witness: a drain loop is active for a key while a re-schedule timer of
\* an earlier loop of the key is still armed.
C2_LoopActiveWithTimerArmed ==
    \E k \in Keys : LoopsOf(k) # {} /\ Len(timers[k]) > 0

\* C3 (as claimed): under dropPolicy new, drop or summarize the number of
\* pending items never exceeds cap.
C3_CapBoundsItems ==
    \A o \in ObjIds :
        (heap[o].alive /\ heap[o].dropPolicy \in {"new", "drop", "summarize"})
            => Len(heap[o].items) <= heap[o].cap

\* C4 (as claimed): with dropPolicy new and cap = 1, two enqueues for a key
\* before any drain leave one item queued and droppedCount = 1.
C4_NewPolicyDropsIncoming ==
    \A k \in Keys :
        ( /\ ANNOUNCE_QUEUES[k] # 0
          /\ enqCount[k] = 2
          /\ sendLog[k] = <<>>
          /\ heap[ANNOUNCE_QUEUES[k]].dropPolicy = "new"
          /\ heap[ANNOUNCE_QUEUES[k]].cap = 1 )
        => ( /\ Len(heap[ANNOUNCE_QUEUES[k]].items) = 1
             /\ heap[ANNOUNCE_QUEUES[k]].droppedCount = 1 )

\* Every item enqueued so far has been passed to send.
AllSent == \A k \in Keys : \A n \in 1..enqCount[k] : n \in Range(sendLog[k])

\* C5: every item enqueueAnnounce accepted is eventually passed to send, when
\* every send settles.  The enqueues of a behaviour are finitely many and a
\* sent item stays sent, so this is: again and again, all accepted items
\* have been sent.
C5_AcceptedEventuallySent == []<>AllSent

\* C5 witness: every item of a burst has been sent and the queue is gone.
C5_AllSentAfterBurst ==
    \E k \in Keys : /\ enqCount[k] = MaxEnq
                    /\ burst[k] >= 2
                    /\ AllSent
                    /\ ANNOUNCE_QUEUES[k] = 0

\* C6: whenever send is called, at least debounceMs have passed since the most
\* recent enqueue of the key.
C6_SendAfterDebounce ==
    lastSend.key # "none" => lastSend.elapsed >= lastSend.debounceMs

\* C6 witness: send was called for a key with a positive debounceMs once its
\* window had closed, while the drain loop of the other key still waits for
\* its own window to close.
C6_SentAfterWindowClosed ==
    /\ lastSend.key # "none"
    /\ lastSend.debounceMs > 0
    /\ \E i \in DOMAIN loops :
          /\ loops[i].key # lastSend.key
          /\ loops[i].pc = "sleep"
          /\ DebouncePending(heap[loops[i].q])

\* The items of `key` sent so far are in increasing (enqueue) order.
SentInOrder(k) ==
    \A i, j \in DOMAIN sendLog[k] : i < j => sendLog[k][i] < sendLog[k][j]

\* C7, the state part: the item whose send failed was passed to send once and
\* waits no more; the sends of the key are in FIFO order; and no
\* enqueueAnnounce call was left by an exception.
C7_FailureDropped ==
    /\ \A k \in Keys :
          /\ lastFailed[k] # 0 =>
                /\ Times(sendLog[k], lastFailed[k]) = 1
                /\ lastFailed[k] \notin Range(Pending(k))
          /\ SentInOrder(k)
    /\ lastReturn # "threw"

\* C7: a failing send is contained (the state part above, always) and every
\* item that waits when a send has failed is eventually passed to send.
C7_FailureContained ==
    /\ []C7_FailureDropped
    /\ (\E k \in Keys : lastFailed[k] # 0 /\ Len(Pending(k)) > 0) ~> AllSent

\* C7 witness: a send failed while another item waited, and that item was
\* sent afterwards.
C7_SentAfterFailure ==
    \E k \in Keys : /\ lastFailed[k] # 0
                    /\ lastFailed[k] < enqCount[k]
                    /\ Len(sendLog[k]) = enqCount[k]
                    /\ Last(sendLog[k]) > lastFailed[k]

\* C8, the state part: a key in the Map has pending items or an active loop.
C8_IdleKeyAbsent ==
    \A k \in Keys : ANNOUNCE_QUEUES[k] # 0 => (Len(Pending(k)) > 0 \/ LoopsOf(k) # {})

\* C8, the step part: an enqueue for an absent key works on a created state:
\* its tunables come from that call's settings and the defaults alone, and it
\* holds nothing but the call's item.
C8_CreatedFresh ==
    \A k \in Keys :
        (ANNOUNCE_QUEUES[k] = 0 /\ ANNOUNCE_QUEUES'[k] # 0) =>
            \E settings \in SettingsChoices, send \in SendFns :
                LET c == CreateState(settings, send)
                    n == heap'[ANNOUNCE_QUEUES'[k]]
                IN  /\ n.mode = c.mode /\ n.debounceMs = c.debounceMs
                    /\ n.cap = c.cap /\ n.dropPolicy = c.dropPolicy
                    /\ n.send = c.send /\ n.droppedCount = 0
                    /\ n.elapsed = 0
                    /\ sendLog'[k] \o n.items = FirstItems(enqCount'[k])

\* C8: a drained key leaves the Map: a key is in the Map only while it has
\* pending items or an active loop, every key is in the end absent for good,
\* and an enqueue for an absent key starts from a created state.
C8_KeyRemovedWhenDrained ==
    /\ []C8_IdleKeyAbsent
    /\ [][C8_CreatedFresh]_vars
    /\ \A k \in Keys : <>[](ANNOUNCE_QUEUES[k] = 0)

\* C8 witness: a key was drained and removed, and a later enqueue created its
\* state anew.
C8_RecreatedAfterRemoval ==
    \E k \in Keys : /\ ANNOUNCE_QUEUES[k] # 0
                    /\ Len(sendLog[k]) >= 1
                    /\ Pending(k) = <<enqCount[k]>>
                    /\ lastFailed[k] = 0
                    /\ Len(timers[k]) = 0
                    /\ burst[k] = 1
                    /\ lastReentrant[k] = 0

\* C9: an enqueue made while a send of the same key is in flight starts no
\* second loop and its item is not sent before that send has completed: the
\* item in flight is the last one passed to send, and draining is true
\* exactly while a loop of the state is active.
C9_ReentrantEnqueueSafe ==
    /\ \A i \in DOMAIN loops :
          /\ heap[loops[i].q].draining
          /\ loops[i].pc = "send" => Last(sendLog[loops[i].key]) = loops[i].item
    /\ \A k \in Keys :
          /\ LoopsOf(k) = {} /\ ANNOUNCE_QUEUES[k] # 0
                => ~heap[ANNOUNCE_QUEUES[k]].draining
          /\ Cardinality(LoopsOf(k)) <= 1
          /\ lastReentrant[k] \in Range(sendLog[k]) =>
                \A m \in 1..lastReentrant[k] : m \in Range(sendLog[k])

\* C9 witness: an item enqueued while a send of its key was in flight has
\* been sent, after the item that was in flight.
C9_ReentrantItemSent ==
    \E k \in Keys : /\ lastReentrant[k] # 0
                    /\ lastReentrant[k] \in Range(sendLog[k])
                    /\ sendLog[k] = FirstItems(lastReentrant[k])

\* C10: a record registered under a runId of its own (one registerRun call for
\* the runId, completed, and no updateRun, deleteRun or eviction of that runId)
\* is what getRun returns for the runId, in whatever order the calls ran.
C10_GetRunReturnsRegistered ==
    \A id \in RunIds :
        (regCalls[id] = 1 /\ regDone[id] = 1 /\ id \notin touched)
            => GetRun(id) = <<regRecord[id]>>

\* C10 witness: two records with distinct runIds have been registered by
\* calls that overlapped, over a file that held another record, and both
\* calls have completed.
C10_BothRegistered ==
    /\ \A id \in RunIds : regCalls[id] = 1 /\ regDone[id] = 1 /\ id \notin touched
    /\ \A id \in RunIds : GetRun(id) = <<regRecord[id]>>
    /\ regRecord["r1"].task = "t"
    /\ started = 2
    /\ file.state = "ok" /\ file.data["r2"] = <<>>

\* Whether this step is the resumption of suspended call i after its
\* `await this.load()`: the call goes on to its save or ends.
ResumesLoaded(i) ==
    /\ calls[i].pc = "loaded"
    /\ started' = started
    /\ \/ \E outcome \in WriteOutcomes : calls' = Resumed(calls, i, outcome)
       \/ calls' = RemoveAt(calls, i)

\* C11: updateRun on a runId the map holds a record under sets exactly the
\* fields provided: every other field of the record and every other value of
\* the map stay as they were.  On a runId without a record it changes neither
\* the map nor the file, and on a loaded registry neither does its start.
C11_UpdateMergesFields ==
    [][ /\ \A i \in DOMAIN calls :
             (calls[i].op = "updateRun" /\ ResumesLoaded(i)) =>
                 IF HoldsRecord(runs, calls[i].runId)
                   THEN /\ HoldsRecord(runs', calls[i].runId)
                        /\ \A f \in RecordFields :
                              runs'[calls[i].runId][1][f] =
                                  IF f \in DOMAIN calls[i].updates
                                    THEN calls[i].updates[f]
                                    ELSE runs[calls[i].runId][1][f]
                        /\ \A other \in RunIds \ {calls[i].runId} :
                              runs'[other] = runs[other]
                   ELSE runs' = runs /\ file' = file
        /\ (loaded /\ started' = started + 1) => (runs' = runs /\ file' = file)
      ]_vars

\* C11 witness: a record registered with an archiveAtMs has had its endedAt
\* set by a completed updateRun and kept its other fields, next to the record
\* the file held.
C11_EndedAtSetOthersKept ==
    /\ calls = <<>>
    /\ HoldsRecord(runs, "r2")
    /\ runs["r2"][1] = [ regRecord["r2"] EXCEPT !.endedAt = Some(2) ]
    /\ runs["r2"][1].archiveAtMs = Some(1)
    /\ HoldsRecord(runs, "r1") /\ runs["r1"][1].task = "old"

\* C12: listRunsForRequester(key) returns the records of the map whose
\* requesterSessionKey is key.trim(), and nothing for a blank key.
C12_ListReturnsMatching ==
    \A key \in KeyInputs :
        ListRunsForRequester(key) =
            IF Trim(key) = <<>> THEN {}
            ELSE { runs[id][1] :
                     id \in { i \in RunIds : HoldsRecord(runs, i)
                                 /\ runs[i][1].requesterSessionKey = Trim(key) } }

\* Whether the record's archiveAtMs is set and has passed.
Due(map, id, now) ==
    /\ HoldsRecord(map, id)
    /\ IsSome(map[id][1].archiveAtMs)
    /\ Val(map[id][1].archiveAtMs) <= now

\* C13: the eviction loop of a sweep at time now removes every record whose
\* archiveAtMs is set and <= now and leaves every other value as it was.
C13_SweepEvictsDue ==
    [][ \A i \in DOMAIN calls :
          (calls[i].op = "sweep" /\ ResumesLoaded(i)) =>
              \A id \in RunIds :
                  runs'[id] = IF Due(runs, id, rnow) THEN <<>> ELSE runs[id]
      ]_vars

\* Whether this step is the end of suspended sweep i.
SweepEnds(i) ==
    /\ calls[i].op = "sweep"
    /\ started' = started
    /\ calls' = RemoveAt(calls, i)
    /\ ~rejected'

\* C14: a sweep that ends with the map empty leaves the timer disarmed, and
\* the timer never stays armed over a map that stays empty.
C14_SweeperDisarmsWhenEmpty ==
    /\ [][ \A i \in DOMAIN calls :
              (SweepEnds(i) /\ runs' = EmptyRuns) => ~sweeper' ]_vars
    /\ []<>(runs = EmptyRuns => ~sweeper)

\* C14 witness: a registry that loaded a record and had it deleted has been
\* disarmed by a sweep, with no call left to re-arm it.
C14_DisarmedAfterDelete ==
    /\ loaded /\ ~sweeper
    /\ runs = EmptyRuns
    /\ calls = <<>>
    /\ startFile.state = "ok"
    /\ file.state = "ok" /\ file.data = EmptyRuns

\* Whether this step holds a call of load(): a caller's call starts, or the
\* timer starts a sweep.
LoadIsCalled ==
    \/ started' = started + 1
    \/ /\ Len(calls') = Len(calls) + 1
       /\ \E i \in DOMAIN calls' : calls'[i].op = "sweep" /\ calls'[i].pc = "loaded"

\* C15: a registry instance reads its file at most once, and a load() on a
\* loaded registry leaves the map (and the timer and the file) as they are.
C15_LoadIdempotent ==
    /\ [](reads <= 1)
    /\ [][ (loaded /\ LoadIsCalled) =>
              (runs' = runs /\ sweeper' = sweeper /\ file' = file /\ loaded') ]_vars

\* C15 witness: load() has run again, from a later call, on a registry whose
\* file no longer holds what the first load() read and whose map is not what
\* the file holds.
C15_LoadedOnceFileChanged ==
    /\ loaded /\ reads = 1
    /\ started = 2 /\ calls # <<>>
    /\ \A i \in DOMAIN calls : calls[i].pc = "loaded"
    /\ file # startFile
    /\ runs # FileView(file)

\* Whether the file does not hold a registry: text that does not parse, or an
\* object with a value that is not a record.
Malformed(f) == f.state = "corrupt" \/ (f.state = "ok" /\ HasNull(FileView(f)))

\* C16: over a file that does not hold a registry no call rejects, and
\* load() leaves the map empty.
C16_CorruptFileNotFatal ==
    Malformed(startFile) =>
        /\ ~rejected
        /\ (loaded /\ \A id \in RunIds : regCalls[id] = 0) => runs = EmptyRuns

\* Whether this step takes suspended call i through its mutation and a
\* save() whose write fails.
WriteFails(i) ==
    /\ calls[i].pc = "loaded"
    /\ started' = started
    /\ calls' = Resumed(calls, i, "fails")

FileMirrorsMap ==
    /\ file.state # "corrupt"
    /\ file.state = "ok" => file.data = Stringify(runs)
    /\ file.state = "absent" => runs = EmptyRuns

\* Whether this step takes suspended call i through a save().
Writes(i) ==
    /\ calls[i].pc = "loaded"
    /\ started' = started
    /\ \E outcome \in WriteOutcomes : calls' = Resumed(calls, i, outcome)

\* Whether this step ends suspended call i without a save().
EndsUnsaved(i) ==
    /\ calls[i].pc = "loaded"
    /\ started' = started
    /\ calls' = RemoveAt(calls, i)

\* C18 as stated: with load and the writes succeeding, the file mirrors the
\* map whenever no call is in flight, a call writes only when it changes the
\* map, and a call that changes the map writes.
C18_WritesOnlyOnChange ==
    /\ []((loaded /\ calls = <<>>) => FileMirrorsMap)
    /\ [][ \A i \in DOMAIN calls :
              /\ Writes(i) => runs' # runs
              /\ EndsUnsaved(i) => runs' = runs ]_vars

\* Whether suspended call i, resumed now, reaches its mutation: registerRun
\* always, updateRun on a record of the map, deleteRun on a runId of the map,
\* a sweep with an entry to evict.
ReachesMutation(i) ==
    \/ calls[i].op = "registerRun"
    \/ calls[i].op = "updateRun" /\ HoldsRecord(runs, calls[i].runId)
    \/ calls[i].op = "deleteRun" /\ runs[calls[i].runId] # <<>>
    \/ calls[i].op = "sweep" /\ ~HasNull(runs) /\ Evicted(Registry, rnow) # {}

\* Whether this step completes call i, which has been through its save().
EndsSaved(i) ==
    /\ calls[i].pc = "saved"
    /\ started' = started
    /\ calls' = RemoveAt(calls, i)

\* C18 amended: with load and the writes succeeding, whenever no registry
\* operation is in flight the file holds the serialization of the map; a call
\* that reaches its mutation (registerRun, updateRun on a record of the map,
\* deleteRun on a runId of the map, a sweep that evicts) performs one write
\* of the whole map, whether or not the mutation has changed the map's
\* content, and a call that does not reach one performs no write and changes
\* nothing.
C18_FileMirrorsMapAfterWrites ==
    /\ []((loaded /\ calls = <<>>) => FileMirrorsMap)
    /\ [][ \A i \in DOMAIN calls :
              /\ Writes(i) =>
                     /\ ReachesMutation(i)
                     /\ file' = [ state |-> "ok", data |-> Stringify(runs') ]
              /\ EndsUnsaved(i) =>
                     (~ReachesMutation(i) /\ runs' = runs /\ file' = file)
              /\ EndsSaved(i) => (runs' = runs /\ file' = file) ]_vars
    /\ [][ (loaded /\ runs' # runs) => \E i \in DOMAIN calls : Writes(i) ]_vars

\* C18 witness: two updateRun calls with the same updates on the same record
\* have both been through save(); the second assignment changed no value,
\* and the file mirrors the map.
C18_RewrittenUnchanged ==
    /\ Len(calls) = 2 /\ loaded
    /\ calls[1] = calls[2]
    /\ calls[1].op = "updateRun" /\ calls[1].pc = "saved" /\ calls[1].write = "ok"
    /\ HoldsRecord(runs, calls[1].runId)
    /\ \A f \in DOMAIN calls[1].updates :
          runs[calls[1].runId][1][f] = calls[1].updates[f]
    /\ FileMirrorsMap

\* Whether this step is the load() of an instance constructed over the file a
\* previous instance left.
LoadsAfterRestart == restarts >= 1 /\ ~loaded /\ loaded'

C20_CallersSeeSnapshots == held.val = held.snap /\ ~held.leaked

\* ------------------------------------------------------ ask-user claims

\* Whether invocation i is subscribed to the responses.
Subscribed(i) == i \in Range(subs["ask-user-response"])

\* Whether invocation i has published its request and waits for the response.
Waits(i) == inv[i].pc = "executed" /\ inv[i].promise = "pending" /\ Subscribed(i)

\* Whether this step publishes response r (last, if it publishes two messages).
Delivers(r) ==
    /\ Len(published') > Len(published)
    /\ published'[Len(published')] = r
    /\ r.type = "ask-user-response"

\* Number of times event e is in the sequence events.
Count(events, e) == Cardinality({ k \in DOMAIN events : events[k] = e })

\* The names of the secrets that answers gives a value for.
Answering(answers) ==
    { Secrets[n] : n \in { m \in DOMAIN Secrets : (m - 1) \in DOMAIN answers
                                                   /\ answers[m - 1] # <<>> } }

\* C21: while an invocation waits with correlationId X, a response with
\* another correlationId leaves it pending, subscribed and unchanged; a
\* response with correlationId X resolves it, with one call of resolve, with
\* the result of that response (declined, or the secrets its answers name), and
\* unsubscribes it; once settled its result never changes.
C21_OnlyMatchingResponseResolves ==
    /\ [][ \A i \in Invs, r \in ResponseChoices :
              (Waits(i) /\ Delivers(r)) =>
                  IF r.correlationId # CorrelationId(i)
                    THEN inv'[i] = inv[i] /\ i \in Range(subs'["ask-user-response"])
                    ELSE /\ inv'[i].promise = "fulfilled"
                         /\ Count(inv'[i].events, "resolve") = 1
                         /\ Count(inv'[i].events, "reject") = 0
                         /\ i \notin Range(subs'["ask-user-response"])
                         /\ IF r.cancelled
                              THEN inv'[i].result.kind = "declined"
                              ELSE \/ inv'[i].result.kind = "saveFailed"
                                   \/ /\ inv'[i].result.kind = "saved"
                                      /\ Range(inv'[i].result.saved) = Answering(r.answers)
          ]_vars
    /\ [][ \A i \in Invs :
              inv[i].promise # "pending" =>
                  (inv'[i].promise = inv[i].promise /\ inv'[i].result = inv[i].result) ]_vars

\* C21 witness: the first invocation has been resolved by the matching
\* response, which came after a response with another correlationId that was
\* published while it waited.
C21_ResolvedAfterForeignResponse ==
    /\ inv["i1"].promise = "fulfilled" /\ inv["i1"].result.kind = "saved"
    /\ Len(published) = 3
    /\ published[1] = Request("i1")
    /\ published[2].correlationId = "Z"
    /\ published[3].correlationId = "X"

\* Whether the abort signal of invocation i fires in this step.
Fires(i) == ~signal[i] /\ signal'[i]

\* C22: when the signal fires while the invocation waits, the invocation
\* resolves with the cancelled result, by one call of resolve, and is
\* unsubscribed; a matching response published after that reaches no handler
\* of the invocation: the invocation and .env stay as they are.
C22_CancelThenRespond ==
    [][ \A i \in Invs :
          /\ (Waits(i) /\ Fires(i)) =>
                 /\ inv'[i].promise = "fulfilled"
                 /\ inv'[i].result = CancelledResult
                 /\ Count(inv'[i].events, "resolve") = 1
                 /\ Count(inv'[i].events, "reject") = 0
                 /\ ~inv'[i].listening
                 /\ i \notin Range(subs'["ask-user-response"])
          /\ \A r \in ResponseChoices :
                 (inv[i].result = CancelledResult /\ Delivers(r)
                    /\ r.correlationId = CorrelationId(i)) =>
                     (inv'[i] = inv[i] /\ env' = env /\ ~Subscribed(i))
      ]_vars

\* C22 witness: the first invocation was cancelled while it waited, and a
\* matching response with answers has been published after that.
C22_LateResponseIgnored ==
    /\ inv["i1"].result = CancelledResult
    /\ signal["i1"]
    /\ Len(published) = 2
    /\ published[1] = Request("i1")
    /\ published[2].correlationId = "X" /\ ~published[2].cancelled
    /\ Count(inv["i1"].events, "resolve") = 1
    /\ env.text = <<Junk>>

\* Whether the k-th event of invocation i is a call of resolve or reject.
SettlesAt(i, k) == inv[i].events[k] \in {"resolve", "reject"}

\* C23: every call of resolve or reject of an invocation comes right after
\* its cleanup (unsubscribe, then removal of the abort listener); a settled
\* invocation is not subscribed and has no abort listener; and a settled
\* promise keeps its state and its result.
C23_CleanupBeforeSettle ==
    /\ [](\A i \in Invs :
             /\ \A k \in DOMAIN inv[i].events :
                    SettlesAt(i, k) =>
                        /\ k > 2
                        /\ inv[i].events[k - 2] = "unsubscribe"
                        /\ inv[i].events[k - 1] = "removeListener"
             /\ inv[i].promise # "pending" => (~Subscribed(i) /\ ~inv[i].listening))
    /\ [][ \A i \in Invs :
              inv[i].promise # "pending" =>
                  (inv'[i].promise = inv[i].promise /\ inv'[i].result = inv[i].result)
          ]_vars

\* C23 witness: the first invocation was rejected by a publish failure and
\* its signal fired afterwards; the second was resolved by its response.
C23_SettledOnThreePaths ==
    /\ inv["i1"].promise = "rejected" /\ inv["i1"].result = PublishError
    /\ signal["i1"]
    /\ inv["i2"].promise = "fulfilled" /\ inv["i2"].result.kind = "saved"
    /\ subs["ask-user-response"] = <<>>

\* Whether a response with the correlationId of invocation i has been
\* published.
HasResponse(i) ==
    \E k \in DOMAIN published :
        /\ published[k].type = "ask-user-response"
        /\ published[k].correlationId = CorrelationId(i)

NewLines ==
    SelectSeq(SubSeq(env'.text, Len(env.text) + 1, Len(env'.text)),
              LAMBDA piece : piece.kind = "line")

\* The indexes of answers that name a requested secret and hold a value that
\* is not empty.
Storable(answers) ==
    { k \in DOMAIN answers : k >= 0 /\ k < Len(Secrets) /\ Len(answers[k]) > 0 }

\* C28: a matching response with cancelled set resolves the waiting
\* invocation with a result without error and leaves .env as it is; a
\* matching response with answers, when the append succeeds, adds to .env one
\* line per index that names a secret and holds a non-empty value, under the
\* name of the secret at that index, with the value as the flow writes values
\* (between quotes when it holds a blank or a #), and no other line.
C28_DeclinedOrStored ==
    [][ \A i \in Invs, r \in ResponseChoices :
          (Waits(i) /\ Delivers(r) /\ r.correlationId = CorrelationId(i)) =>
              /\ inv'[i].promise = "fulfilled"
              /\ r.cancelled =>
                     (inv'[i].result.error = None /\ env' = env)
              /\ ~r.cancelled =>
                     /\ inv'[i].result.kind \in {"saved", "saveFailed"}
                     /\ inv'[i].result.kind = "saveFailed" => env' = env
                     /\ inv'[i].result.kind = "saved" =>
                            /\ inv'[i].result.error = None
                            /\ Len(NewLines) = Cardinality(Storable(r.answers))
                            /\ { <<NewLines[n].name, NewLines[n].value>> :
                                    n \in DOMAIN NewLines }
                                 = { <<Secrets[k + 1], SafeValue(r.answers[k])>> :
                                       k \in Storable(r.answers) }
      ]_vars

\* C28 witness: the first invocation got answers of which none is stored (an
\* empty value, an index that names no secret); the second got two that are.
C28_StoredAndSkipped ==
    /\ inv["i1"].result = SavedResult(<<>>)
    /\ inv["i2"].result = SavedResult(<<"DB_USER", "DB_PASS">>)
    /\ Len(SelectSeq(env.text, LAMBDA piece : piece.kind = "line")) = 2

\* Whether a response with invocation i's correlationId was published after
\* i's request.
RespondedAfterRequest(i) ==
    \E k, j \in DOMAIN published :
        /\ k < j
        /\ published[k] = Request(i)
        /\ published[j].type = "ask-user-response"
        /\ published[j].correlationId = CorrelationId(i)

\* C29: an invocation subscribes its response handler before it publishes its
\* request, and no invocation is left pending once a response with its
\* correlationId has been published after its request, the response published
\* from inside the request's publish included.
C29_SubscribedBeforePublish ==
    \A i \in Invs :
        /\ \A p \in DOMAIN inv[i].events :
               inv[i].events[p] = "publish" =>
                   \E s \in 1..(p - 1) : inv[i].events[s] = "subscribe"
        /\ RespondedAfterRequest(i) => inv[i].promise # "pending"

\* C29 witness: the first invocation was answered before the promise of its
\* publish settled.
C29_AnsweredDuringPublish ==
    /\ inv["i1"].promise = "fulfilled"
    /\ inv["i1"].publishing # "none"
    /\ RespondedAfterRequest("i1")

\* -------------------------------------------------------------- bus claims

\* Whether sequence s is sequence t with some of its elements left out.
RECURSIVE IsSubsequence(_, _)
IsSubsequence(s, t) ==
    IF s = <<>> THEN TRUE
    ELSE IF t = <<>> THEN FALSE
    ELSE IF Head(s) = Head(t) THEN IsSubsequence(Tail(s), Tail(t))
    ELSE IsSubsequence(s, Tail(t))

\* Whether this step is one call of publish, with message m.
Publishes(m) == published' = Append(published, m)

\* C27: a publish hands the message to every handler subscribed to the
\* message's type when publish is called (an invocation's response handler
\* among them: a matching response settles it) and to no other handler; no
\* other step hands a handler anything; and what a handler has been handed
\* is, in order, part of what was published with its type.
C27_PublishBroadcastsInOrder ==
    /\ [][ \A m \in ResponseChoices \cup { Request(i) : i \in Invs } :
              Publishes(m) =>
                  /\ \A h \in Handlers :
                        delivered'[h] = IF h \in Range(subs[m.type])
                                          THEN Append(delivered[h], m)
                                          ELSE delivered[h]
                  /\ \A i \in Invs :
                        (Waits(i) /\ m.type = "ask-user-response"
                           /\ m.correlationId = CorrelationId(i)) =>
                            inv'[i].promise = "fulfilled"
          ]_vars
    /\ [][ published' = published => delivered' = delivered ]_vars
    /\ [](\A h \in Handlers :
             IsSubsequence(delivered[h],
                           SelectSeq(published, LAMBDA m : m.type = HandlerType(h))))

\* C27 witness: two responses were published; one bystander got both, the
\* other, which unsubscribed in between, got the first only; the surface
\* got the request and no response.
C27_BroadcastToSubscribed ==
    /\ Len(published) = 3
    /\ published[1] = Request("i1")
    /\ delivered["ui"] = << Request("i1") >>
    /\ delivered["peer"] = << published[2], published[3] >>
    /\ delivered["audit"] = << published[2] >>
    /\ published[2] # published[3]
    /\ inv["i1"].promise = "fulfilled"

\* ------------------------------------------------------- delegation claims

\* Whether invocation e's execute() has settled after delegating.
Finished(e) == exec[e].pc = "settled" /\ exec[e].result # "invalid"

\* The record the registry holds for invocation e's run, when it holds one.
RunOf(e) == runs[RunIdOf(e)][1]

ScenarioRun(run) ==
    /\ run.runId = "r1" /\ run.requesterSessionKey = "main" /\ run.createdAt = 1000
    /\ run.endedAt = Some(2000)
    /\ run.outcome = Some([ status |-> "ok", error |-> None ])

\* No queue state, drain loop or timer is left for the key.
Drained(k) == ANNOUNCE_QUEUES[k] = 0 /\ LoopsOf(k) = {} /\ timers[k] = <<>>

\* The n-th item enqueued for key k is the announce of a scenario run that
\* went as the scenario expects: enqueued under 'main', its prompt holds
\* "completed" and the runtime "1s", and send is called with it no more than
\* once, and once when the queue has drained.
AnnouncedAsExpected(k, n) ==
    /\ k = "main"
    /\ "completed" \in Range(prompts[k][n].prompt)
    /\ "1s" \in Range(prompts[k][n].prompt)
    /\ Times(sendLog[k], n) <= 1
    /\ Drained(k) => Times(sendLog[k], n) = 1

Announced(e) ==
    \E n \in DOMAIN prompts["main"] : prompts["main"][n].from.runId = RunIdOf(e)

\* C25: once an execute() that delegated has settled and no registry call is
\* left suspended, the run's completion is recorded in the registry and an
\* announce item for the run has been enqueued under the requester's key.
C25_CompletionAnnounced ==
    \A e \in Execs :
        (Finished(e) /\ calls = <<>>) =>
            /\ HoldsRecord(runs, RunIdOf(e)) /\ IsSome(RunOf(e).endedAt)
            /\ Announced(e)

\* ------------------------------------------------- more ask-user claims

\* C38: .env changes only in a step that publishes a response with the
\* correlationId of an invocation that is pending and whose signal has not
\* fired, the response not cancelled, and that step settles the invocation;
\* a settled invocation stays as it settled.  So an invocation writes at most
\* once, and no response after its cancellation or settlement writes.
C38_WritesOnceBeforeCancel ==
    /\ [][ env' # env =>
             \E i \in Invs, r \in ResponseChoices :
                 /\ Delivers(r) /\ ~r.cancelled
                 /\ r.correlationId = CorrelationId(i)
                 /\ inv[i].promise = "pending" /\ ~signal[i]
                 /\ inv'[i].promise = "fulfilled"
                 /\ inv'[i].result.kind = "saved" ]_vars
    /\ [][ \A i \in Invs :
             inv[i].promise # "pending" =>
                 (inv'[i].promise = inv[i].promise /\ inv'[i].result = inv[i].result) ]_vars

\* C38 witness: the first invocation's answers were saved, and a second
\* response with answers for it was published after that and wrote nothing.
C38_SecondResponseWritesNothing ==
    /\ Len(published) = 3
    /\ published[1] = Request("i1")
    /\ published[2].correlationId = "X" /\ ~published[2].cancelled
    /\ published[3].correlationId = "X" /\ ~published[3].cancelled
    /\ inv["i1"].result.kind = "saved"
    /\ Len(SelectSeq(env.text, LAMBDA piece : piece.kind = "line"))
         = Cardinality(Storable(published[2].answers))

\* C39: an execute() called with its signal already aborted resolves in that
\* call with the cancelled result, subscribes nothing and publishes nothing;
\* and an invocation that started so never subscribes or publishes later.
C39_AbortedBeforeStart ==
    /\ [][ \A i \in Invs :
             (inv[i].pc = "created" /\ signal[i] /\ inv'[i].pc # "created") =>
                 /\ inv'[i].promise = "fulfilled"
                 /\ inv'[i].result = CancelledResult
                 /\ subs' = subs
                 /\ published' = published
                 /\ delivered' = delivered
                 /\ ~inv'[i].listening ]_vars
    /\ [](\A i \in Invs :
            (inv[i].pc = "executed" /\ inv[i].events[1] # "addListener") =>
                /\ "subscribe" \notin Range(inv[i].events)
                /\ "publish" \notin Range(inv[i].events)
                /\ Request(i) \notin Range(published)
                /\ ~Subscribed(i)
                /\ inv[i].result = CancelledResult)

\* C39 witness: the first invocation was executed with its signal aborted,
\* while the second has published its request and waits.
C39_CancelledAtOnce ==
    /\ inv["i1"].pc = "executed" /\ inv["i1"].result = CancelledResult
    /\ "subscribe" \notin Range(inv["i1"].events)
    /\ Waits("i2")
    /\ published = <<Request("i2")>>

\* ------------------------------------------------- more registry claims

\* C31: the registry never has more than one interval timer armed, and has
\* one exactly when its sweeper field holds one; in every reachable state
\* startSweeper() leaves one timer armed (a second call changes nothing) and
\* stopSweeper() leaves none, whether or not one was armed.
C31_AtMostOneSweeperTimer ==
    /\ intervals \in {0, 1}
    /\ sweeper <=> intervals = 1
    /\ StartSweeper(Registry).intervals = 1
    /\ StartSweeper(StartSweeper(Registry)) = StartSweeper(Registry)
    /\ StopSweeper(Registry).intervals = 0 /\ ~StopSweeper(Registry).sweeper
    /\ StopSweeper(StopSweeper(Registry)) = StopSweeper(Registry)

\* C31 witness: two registerRun calls have completed on a loaded registry and
\* one timer is armed.
C31_ArmedOnceAfterTwoRegisters ==
    /\ loaded /\ calls = <<>>
    /\ regDone["r1"] = 1 /\ regDone["r2"] = 1
    /\ sweeper /\ intervals = 1

\* C36: every record of the run map is stored under its own runId.
C36_StoredUnderOwnRunId ==
    \A id \in RunIds :
        runs[id] # <<>> => (runs[id][1] # NullEntry /\ runs[id][1].runId = id)

\* A getRun and a listRunsForRequester call have just returned.
LookedUp == held = NoHandle /\ held'.from = "lookup"

\* C40: getRun and listRunsForRequester never load: they leave the map, the
\* loaded flag, the file and the count of file reads as they were, and on an
\* instance that has not loaded they return undefined and the empty list,
\* whatever the file holds.
C40_LookupsNeverLoad ==
    /\ [](~loaded => RunsEmpty(Registry))
    /\ [][LookedUp =>
            /\ UNCHANGED <<runs, loaded, sweeper, intervals, file, persisted, reads, calls>>
            /\ ~loaded => held'.got = <<>> /\ held'.listed = {}]_vars

C40_EmptySeenOverStoredFile ==
    /\ held.from = "lookup" /\ held.got = <<>> /\ held.listed = {}
    /\ ~loaded /\ reads = 0
    /\ file.state = "ok" /\ HoldsRecord(file.data, "r1")

\* What the mutation of a caller's suspended call makes of a map.
Mutated(map, c) ==
    CASE c.op = "registerRun" -> [ map EXCEPT ![c.runId] = << c.record >> ]
      [] c.op = "updateRun" -> [ map EXCEPT ![c.runId] = << Assigned(@[1], c.updates) >> ]
      [] c.op = "deleteRun" -> [ map EXCEPT ![c.runId] = <<>> ]
      [] OTHER -> map

\* C37: with calls of registerRun, updateRun and deleteRun in flight together
\* and the writes succeeding, each call applies its mutation to the map as the
\* calls before it left it and writes that whole map, nothing but a call's
\* mutation changes the map of a loaded registry, and once no call is in
\* flight the file holds the map.
C37_NoUpdateLost ==
    /\ []((loaded /\ calls = <<>>) => FileMirrorsMap)
    /\ [][ \A i \in DOMAIN calls :
              (calls[i].op # "sweep" /\ Writes(i)) =>
                  /\ runs' = Mutated(runs, calls[i])
                  /\ file' = [ state |-> "ok", data |-> Stringify(runs') ] ]_vars
    /\ [][ (loaded /\ ~\E i \in DOMAIN calls : Writes(i)) =>
              (runs' = runs /\ file' = file) ]_vars

\* C37 witness: a registerRun and an updateRun were started before either had
\* resumed; both have made their mutation and written, and the map and the
\* file hold the record registered and the field updated.
C37_BothMutationsKept ==
    /\ Len(calls) = 2 /\ started = 2
    /\ \A i \in DOMAIN calls : calls[i].pc = "saved"
    /\ calls[1].op = "registerRun" /\ calls[1].runId = "r2"
    /\ calls[2].op = "updateRun" /\ calls[2].runId = "r1"
    /\ "endedAt" \in DOMAIN calls[2].updates
    /\ runs["r2"] = << calls[1].record >>
    /\ HoldsRecord(runs, "r1") /\ runs["r1"][1].endedAt = Some(2)
    /\ FileMirrorsMap

\* C33: with no caller stopping the sweeper, the timer is armed whenever the
\* registry is loaded, holds a record and has no call in flight, and the map
\* does not go on holding a record whose archiveAtMs has passed.
C33_ArmedWhileRecordsAndEvicts ==
    /\ []((loaded /\ ~RunsEmpty(Registry) /\ calls = <<>>) => sweeper)
    /\ \A id \in RunIds : Due(runs, id, rnow) ~> ~Due(runs, id, rnow)

\* ------------------------------------------------------ more queue claims

\* Whether a drain loop started for the key runs on the object the Map holds
\* under it, and the object's flag says so.
LoopActive(k) ==
    /\ heap[ANNOUNCE_QUEUES[k]].draining
    /\ \E i \in LoopsOf(k) : loops[i].q = ANNOUNCE_QUEUES[k]

\* C34: every key of the Map has a drain loop running on its object or a
\* re-schedule timer armed that will start one.
C34_NoQueueStranded ==
    \A k \in Keys : ANNOUNCE_QUEUES[k] # 0 => (LoopActive(k) \/ timers[k] # <<>>)

\* C34 witness: after a send failed with an item still queued, the key is in
\* the Map with no loop running and the re-schedule timer armed.
C34_WaitingForReschedule ==
    /\ ANNOUNCE_QUEUES["main"] # 0
    /\ ~heap[ANNOUNCE_QUEUES["main"]].draining /\ LoopsOf("main") = {}
    /\ heap[ANNOUNCE_QUEUES["main"]].items # <<>>
    /\ lastFailed["main"] # 0
    /\ timers["main"] # <<>>

\* Whether this step passes an item of the key to a send callback.
Sends(k) == Len(sendLog'[k]) = Len(sendLog[k]) + 1

\* Whether this step is an enqueueAnnounce call for a key whose state the Map
\* holds before and after it.
EnqueuesOnExisting(k) ==
    /\ enqCount'[k] = enqCount[k] + 1
    /\ ANNOUNCE_QUEUES[k] # 0
    /\ ANNOUNCE_QUEUES'[k] = ANNOUNCE_QUEUES[k]

\* Whether every item is passed to the send callback of the key's latest
\* enqueueAnnounce call.
SentViaLatest ==
    \A k \in Keys : Sends(k) => lastSend'.via = Last(enqArgs'[k].sends)

\* Whether an enqueueAnnounce call on an existing state leaves it with the
\* mode, cap and dropPolicy the call gives, an omitted dropPolicy or cap and
\* a cap that is not positive keeping the state's.
SettingsTaken(k) ==
    LET s == heap[ANNOUNCE_QUEUES[k]]
        t == heap'[ANNOUNCE_QUEUES[k]]
        given == enqArgs'[k].settings
    IN  /\ t.mode = given.mode
        /\ t.cap = IF IsSome(given.cap) /\ Val(given.cap) > 0 THEN Val(given.cap) ELSE s.cap
        /\ t.dropPolicy = IF given.dropPolicy # "undefined" THEN given.dropPolicy
                          ELSE s.dropPolicy

C32_OriginNormalizedKeyStable ==
    /\ NormalizeDeliveryContext(lastOrigin.origin) = lastOrigin.origin
    /\ NormalizeDeliveryContext(NormalizeDeliveryContext(lastOrigin.context))
           = NormalizeDeliveryContext(lastOrigin.context)
    /\ \A other \in OriginChoices :
          Originated(other).origin = lastOrigin.origin
              => Originated(other).originKey = lastOrigin.originKey
    /\ IsSome(lastOrigin.originKey) <=>
           /\ IsSome(lastOrigin.origin)
           /\ Truthy(Val(lastOrigin.origin).channel)
           /\ Truthy(Val(lastOrigin.origin).to)

\* C32 witness: an item was pushed whose origin had a padded upper-case
\* channel, a padded destination, a blank account and a fractional threadId;
\* its normalized origin and its key are those of the plain spelling.
C32_PaddedOriginKeyed ==
    /\ lastOrigin.context =
           Some([ channel |-> Some(<<" ", "A", " ">>), to |-> Some(<<" ", "x">>),
                  accountId |-> Some(<<" ">>), threadId |-> Some(NumberId(3)) ])
    /\ lastOrigin.origin =
           Some([ channel |-> Some(<<"a">>), to |-> Some(<<"x">>), accountId |-> None,
                  threadId |-> Some(NumberId(2)) ])
    /\ lastOrigin.originKey = Some(<<"a", "|", "x", "|", "|", "1">>)
    /\ enqCount["main"] = 1

====
